---- MODULE Spec2Model ----
(***************************************************************************)
(* Model of the metadata index of ST-Manager: GlobalMetadataCache          *)
(* (src/core/data/cache.py) together with the route handlers that drive   *)
(* it (src/core/api/v1/cards.py, src/core/services/card_service.py) and    *)
(* the persistent store / file system they write.                          *)
(*                                                                         *)
(* Paths ("a/b/c.png") are sequences of segments (<<"a","b","c.png">>);    *)
(* "" is <<>>.  s.startswith(p + "/") is IsUnder(s, p); rsplit("/",1)[0]   *)
(* is Parent.  Card dicts live in a heap (oid -> record) so that the       *)
(* sharing of one object between cards and id_map is part of the state.    *)
(* Only the fields the index logic reads are kept in a card record; the    *)
(* sidecar-note fields and the URLs are pass-through data and are left out.*)
(***************************************************************************)
EXTENDS Integers, Sequences, FiniteSets, TLC

\* ---------------------------------------------------------------- bounds
MaxDepth == 2       \* deepest folder nesting explored
MaxFiles == 2       \* most records held by the store
MaxTime  == 3       \* last reading of the clock that stamps written files
MaxOps   == 4       \* operations performed on the index in one run
MaxClock == 3       \* last reading of the wall clock of the schedulers
MaxCalls == 3       \* calls of request_scan in one run
MaxSchedules == 2   \* calls of schedule_reload in one run
MaxEdits == 3       \* changes made to the cards folder or the table around a scan cycle
MaxRetries == 3     \* largest max_retries passed to execute_with_retry

DirNames  == {"A", "B"}
FileNames == {"x", "y"}
NameOrder == <<"A", "B", "a", "b", "x", "y">>   \* code-point order of the names used

\* the tag list stored in a card file, by file name
FileTags(f) == IF f = "x" THEN <<"b", "a">> ELSE <<"a">>

\* ---------------------------------------------------------------- paths
RECURSIVE SeqsUpTo(_, _)
SeqsUpTo(S, n) ==
    IF n = 0 THEN {<<>>}
    ELSE LET shorter == SeqsUpTo(S, n - 1)
         IN  shorter \cup {Append(p, s) : p \in shorter, s \in S}

\* folder paths explored: a name is not repeated along a path
Dirs == {p \in SeqsUpTo(DirNames, MaxDepth) :
            \A i, j \in DOMAIN p : p[i] = p[j] => i = j}

Parent(p) == IF Len(p) = 0 THEN <<>> ELSE SubSeq(p, 1, Len(p) - 1)

Basename(p) == p[Len(p)]

IsUnder(p, prefix) ==
    /\ prefix # <<>>
    /\ Len(p) > Len(prefix)
    /\ SubSeq(p, 1, Len(prefix)) = prefix

Rebase(p, old, new) == new \o SubSeq(p, Len(old) + 1, Len(p))

Prefixes(p) == {SubSeq(p, 1, k) : k \in 1..Len(p)}

Rank(n) == CHOOSE i \in DOMAIN NameOrder : NameOrder[i] = n

RECURSIVE PathLess(_, _)
PathLess(p, q) ==
    IF Len(q) = 0 THEN FALSE
    ELSE IF Len(p) = 0 THEN TRUE
    ELSE IF p[1] = q[1] THEN PathLess(Tail(p), Tail(q))
    ELSE Rank(p[1]) < Rank(q[1])

RECURSIVE SortedInsert(_, _)
SortedInsert(s, p) ==
    IF s = <<>> THEN <<p>>
    ELSE IF PathLess(p, Head(s)) THEN <<p>> \o s
    ELSE <<Head(s)>> \o SortedInsert(Tail(s), p)

RECURSIVE sorted(_)
sorted(s) == IF s = <<>> THEN <<>> ELSE SortedInsert(sorted(Tail(s)), Head(s))

RECURSIVE SetToSeq(_)
SetToSeq(S) ==
    IF S = {} THEN <<>>
    ELSE LET m == CHOOSE x \in S : \A y \in S : x = y \/ PathLess(x, y)
         IN  <<m>> \o SetToSeq(S \ {m})

SeqToSet(s) == {s[i] : i \in DOMAIN s}

\* sorted(list(a_set)) for a set of tag strings
SortedTags(S) == LET l == SetToSeq({<<t>> : t \in S}) IN [i \in DOMAIN l |-> l[i][1]]

\* ---------------------------------------------------------------- dicts
Put(f, k, v) == [x \in (DOMAIN f) \cup {k} |-> IF x = k THEN v ELSE f[x]]

Del(f, k) == [x \in (DOMAIN f) \ {k} |-> f[x]]

Get(f, k, dflt) == IF k \in DOMAIN f THEN f[k] ELSE dflt

EmptyDict == [x \in {} |-> 0]

\* ---------------------------------------------------------------- state
VARIABLES
    db,               \* card_metadata rows in rowid order:
                      \*   [id, category, last_modified, tags, is_favorite]
    sentinels,        \* directories that hold the .bundle marker file
    folders,          \* directories that exist under CARDS_FOLDER
    heap,             \* oid -> card dict
    cards,            \* self.cards: sequence of oids
    id_map,           \* self.id_map: id -> oid
    bundle_map,       \* self.bundle_map: bundle_dir -> id
    global_tags,      \* self.global_tags
    category_counts,  \* self.category_counts: category -> count
    visible_folders,  \* self.visible_folders
    initialized,      \* self.initialized
    last,             \* the operation that produced this state
    ops,              \* number of operations performed so far
    now               \* time.time() / os.path.getmtime of the next file written

storeVars == <<db, sentinels, folders>>
cacheVars == <<heap, cards, id_map, bundle_map, global_tags, category_counts,
               visible_folders, initialized>>

\* the schedulers around the index: suppression window, scan debounce, scan worker
VARIABLES
    clock,                \* time.time() as the scheduler threads read it
    fs_ignore_until,      \* ctx: the suppression deadline
    fs_event,             \* the watch event on_any_event handled last
    caller,               \* thread -> where it is inside request_scan
    scan_debounce_timer,  \* ctx.scan_debounce_timer: [state, due]
    scan_queue,           \* ctx.scan_queue
    scan_active,          \* ctx.scan_active
    starter,              \* thread -> where it is inside start_background_scanner
    worker,               \* background_scanner threads: [pc, task, cycle, failed]
    status,               \* ctx.init_status['status']
    hist                  \* what has happened so far: calls, enqueued tasks, cycles

scanVars == <<clock, fs_ignore_until, fs_event, caller, scan_debounce_timer, scan_queue,
              scan_active, starter, worker, status, hist>>
\* the reload scheduler of cache_service
VARIABLES
    reload_pending,       \* ctx.reload_pending
    reload_timer,         \* ctx.reload_timer: index into reload_timers, 0 for None
    reload_timers,        \* the Timer threads schedule_reload has started: [pc, due, run]
    scheduler,            \* thread -> where it is inside schedule_reload
    forcer,               \* thread -> where it is inside force_reload: [pc, run]
    reloads,              \* the executions of reload_from_db begun by _do_reload_now
    rhist                 \* the schedule_reload calls made so far

reloadVars == <<reload_pending, reload_timer, reload_timers, scheduler, forcer, reloads,
                rhist>>
\* the Cache Index lock and the threads that take it or read past it
VARIABLES
    lock,                 \* self.lock: the thread holding it, "none" when free
    thr,                  \* thread -> [pc, arg]: where it is in its handler
    snap,                 \* what reload_from_db has read so far: folders, rows, markers
    gone                  \* ids of records whose file is no longer in the cards folder

lockVars == <<lock, thr, snap, gone>>

\* the cards folder and the table card_metadata as a scan cycle reads them, and the
\* call of execute_with_retry in progress
VARIABLES
    disk,                 \* file name -> [mtime, size, kind, tokens]; kind "none": no file
    card_metadata,        \* id -> [mtime, size, tokens, hash, fav], the committed rows
    scan,                 \* the cycle of _perform_scan_logic in progress or just ended
    retry                 \* the call of execute_with_retry in progress or just ended

\* the reload debounce lock and the threads that take it and the index lock
VARIABLES
    reload_lock,          \* ctx.reload_lock: the thread holding it, "none" when free
    proc                  \* thread -> [op, pc]: the call it runs and where it is in it

orderVars == <<reload_lock, proc>>
moreVars == <<disk, card_metadata, scan, retry, orderVars>>
indexVars == <<db, sentinels, folders, heap, cards, id_map, bundle_map, global_tags,
               category_counts, visible_folders, initialized, last, ops, now>>
vars == <<db, sentinels, folders, heap, cards, id_map, bundle_map, global_tags,
          category_counts, visible_folders, initialized, last, ops, now, scanVars,
          reloadVars, lockVars, moreVars>>

Cache == [heap |-> heap, cards |-> cards, id_map |-> id_map,
          bundle_map |-> bundle_map, global_tags |-> global_tags,
          category_counts |-> category_counts,
          visible_folders |-> visible_folders, initialized |-> initialized]

Referenced(C) == SeqToSet(C.cards) \cup {C.id_map[k] : k \in DOMAIN C.id_map}

\* dicts no longer referenced from cards or id_map are dropped
SetCache(C) ==
    /\ heap' = [o \in (DOMAIN C.heap) \cap Referenced(C) |-> C.heap[o]]
    /\ cards' = C.cards
    /\ id_map' = C.id_map
    /\ bundle_map' = C.bundle_map
    /\ global_tags' = C.global_tags
    /\ category_counts' = C.category_counts
    /\ visible_folders' = C.visible_folders
    /\ initialized' = C.initialized

NewOid(h) == CHOOSE n \in 1..(Cardinality(DOMAIN h) + 1) : n \notin DOMAIN h

\* again: this rebuild directly follows a successful rebuild
\* found: the id handed to the incremental operation was a key of id_map
Op(name, a, b, ok) ==
    [op |-> name, a |-> a, b |-> b, ok |-> ok, again |-> FALSE, found |-> TRUE]

\* the state is the result of a successful reload_from_db
AfterReload == last.ok /\ last.op \in {"reload", "toggle_bundle"}

\* one more operation is performed; Stamp: it writes a card file at time now
Tick == ops < MaxOps /\ ops' = ops + 1 /\ UNCHANGED <<scanVars, reloadVars, lockVars, moreVars>>

Stamp == now <= MaxTime /\ now' = now + 1

DbIds == {db[i].id : i \in DOMAIN db}

Row(rows, id) == rows[CHOOSE i \in DOMAIN rows : rows[i].id = id]

\* GlobalMetadataCache.__init__
Callers  == {"watchdog", "api"}          \* threads that call request_scan
Starters == {"init_services", "other"}    \* threads that call start_background_scanner
Workers  == {1, 2}                        \* background_scanner threads that may exist

NoEvent == [at |-> 0, deadline |-> 0, is_directory |-> TRUE, is_card |-> FALSE,
            requested |-> FALSE]
NoTimer == [state |-> "none", due |-> 0]
NoTask  == [type |-> "none", during |-> {}]

ScanInit ==
    /\ clock = 0
    /\ fs_ignore_until = 0
    /\ fs_event = NoEvent
    /\ caller = [t \in Callers |-> "idle"]
    /\ scan_debounce_timer = NoTimer
    /\ scan_queue = <<>>
    /\ scan_active = FALSE
    /\ starter = [t \in Starters |-> "idle"]
    /\ worker = [w \in Workers |-> [pc |-> "none", task |-> NoTask, cycle |-> 0,
                                     failed |-> FALSE]]
    /\ status = "initializing"
    /\ hist = [calls |-> 0, called_at |-> 0, burst |-> TRUE, enqueued |-> 0,
               cycles |-> 0, caused |-> <<>>]

Schedulers == {"api", "background_scanner"}   \* threads that call schedule_reload
Forcers    == {"api_1", "api_2"}              \* request threads that call force_reload

ReloadInit ==
    /\ reload_pending = FALSE
    /\ reload_timer = 0
    /\ reload_timers = <<>>
    /\ scheduler = [t \in Schedulers |-> "idle"]
    /\ forcer = [t \in Forcers |-> [pc |-> "idle", run |-> 0]]
    /\ reloads = <<>>
    /\ rhist = [calls |-> 0, called_at |-> 0, burst |-> TRUE, late |-> FALSE]

Threads == {"reload_from_db", "api_upload_commit", "api_delete_cards",
            "api_list_cards", "world_info"}

NoSnap == [physical_folders |-> {}, rows |-> <<>>, sent |-> {}]

LockInit ==
    /\ lock = "none"
    /\ thr = [t \in Threads |-> [pc |-> "idle", arg |-> <<>>]]
    /\ snap = NoSnap
    /\ gone = {}

CardNames == {"x.png", "y.json"}        \* names is_card_file accepts
OtherNames == {"n.txt"}                 \* names it rejects
Names == CardNames \cup OtherNames

NoFile == [mtime |-> 0, size |-> 0, kind |-> "none", tokens |-> 0]

NoRows == [id \in {} |-> NoFile]

NoScan == [pc |-> "idle", db_files_map |-> NoRows, tx |-> NoRows, todo |-> {},
           fs_found_files |-> {}, changes_detected |-> FALSE, extracted |-> {},
           failed |-> {}, written |-> {}, scheduled |-> FALSE,
           began_at |-> -1, ended_at |-> -1, repeat |-> FALSE]

NoRetry == [pc |-> "idle", outcomes |-> <<>>, max_retries |-> 0, i |-> 0, calls |-> 0,
            sleeps |-> 0, result |-> "none"]

LockUsers == {"api_1", "api_2", "timer"}

OrderInit ==
    /\ reload_lock = "none"
    /\ proc = [t \in LockUsers |-> [op |-> "none", pc |-> "idle"]]

CycleInit ==
    /\ disk = [n \in Names |-> NoFile]
    /\ card_metadata = NoRows
    /\ scan = NoScan
    /\ retry = NoRetry

Init ==
    /\ ScanInit
    /\ ReloadInit
    /\ LockInit
    /\ CycleInit
    /\ OrderInit
    /\ db = <<>>
    /\ sentinels = {}
    /\ folders = {}
    /\ heap = EmptyDict
    /\ cards = <<>>
    /\ id_map = EmptyDict
    /\ bundle_map = EmptyDict
    /\ global_tags = <<>>
    /\ category_counts = EmptyDict
    /\ visible_folders = <<>>
    /\ initialized = FALSE
    /\ last = Op("init", <<>>, <<>>, TRUE)
    /\ ops = 0
    /\ now = 1

\* ---------------------------------------------------------------- counts
RECURSIVE update_prefixes(_, _, _, _)
update_prefixes(counts, category, k, delta) ==
    IF k > Len(category) THEN counts
    ELSE LET current_path == SubSeq(category, 1, k)
             n == Get(counts, current_path, 0) + delta
         IN  update_prefixes(Put(counts, current_path, IF n < 0 THEN 0 ELSE n),
                             category, k + 1, delta)

update_category_count(counts, category, delta) ==
    IF category = <<>> THEN counts
    ELSE update_prefixes(counts, category, 1, delta)

RECURSIVE recalculate_from(_, _, _, _)
recalculate_from(counts, h, cs, i) ==
    IF i > Len(cs) THEN counts
    ELSE recalculate_from(update_category_count(counts, h[cs[i]].category, 1),
                          h, cs, i + 1)

recalculate_counts(C) ==
    [C EXCEPT !.category_counts = recalculate_from(EmptyDict, C.heap, C.cards, 1)]

\* ---------------------------------------------------------------- reload_from_db
RawCard(row) ==
    [id |-> row.id, category |-> row.category, is_bundle |-> FALSE,
     bundle_dir |-> <<>>, versions |-> <<>>,
     last_modified |-> row.last_modified, tags |-> row.tags,
     is_favorite |-> row.is_favorite]

VersionStub(v) == [id |-> v.id, last_modified |-> v.last_modified]

\* the insertion step of an ascending sort (reverse=True forgotten)
RECURSIVE InsertByMtimeAscending(_, _)
InsertByMtimeAscending(s, c) ==
    IF s = <<>> THEN <<c>>
    ELSE IF Head(s).last_modified <= c.last_modified
         THEN <<Head(s)>> \o InsertByMtimeAscending(Tail(s), c)
         ELSE <<c>> \o s

\* list.sort(key=last_modified, reverse=True): stable, equal keys keep their order
RECURSIVE InsertByMtime(_, _)
InsertByMtime(s, c) ==
    IF s = <<>> THEN <<c>>
    ELSE IF Head(s).last_modified >= c.last_modified
         THEN <<Head(s)>> \o InsertByMtime(Tail(s), c)
         ELSE <<c>> \o s

RECURSIVE SortByMtimeDesc(_)
SortByMtimeDesc(s) ==
    IF s = <<>> THEN <<>>
    ELSE InsertByMtime(SortByMtimeDesc(SubSeq(s, 1, Len(s) - 1)), s[Len(s)])

\* keys of the bundles dict in insertion order
RECURSIVE BundleOrder(_, _, _)
BundleOrder(raw, bundle_dirs, seen) ==
    IF raw = <<>> THEN <<>>
    ELSE LET d == Parent(Head(raw).id)
         IN  IF d \in bundle_dirs /\ d \notin seen
             THEN <<d>> \o BundleOrder(Tail(raw), bundle_dirs, seen \cup {d})
             ELSE BundleOrder(Tail(raw), bundle_dirs, seen)

BundleCard(raw, dir_path) ==
    LET version_list == SortByMtimeDesc(SelectSeq(raw, LAMBDA c : Parent(c.id) = dir_path))
        latest_card == version_list[1]
    IN  [latest_card EXCEPT
            !.is_bundle = TRUE,
            !.bundle_dir = dir_path,
            !.versions = [i \in DOMAIN version_list |-> VersionStub(version_list[i])],
            !.category = Parent(dir_path)]

FinalCards(rows, sent) ==
    LET raw == [i \in DOMAIN rows |-> RawCard(rows[i])]
        bundle_dirs == ({Parent(raw[i].id) : i \in DOMAIN raw} \ {<<>>}) \cap sent
        order == BundleOrder(raw, bundle_dirs, {})
    IN  SelectSeq(raw, LAMBDA c : Parent(c.id) \notin bundle_dirs)
            \o [i \in DOMAIN order |-> BundleCard(raw, order[i])]

RECURSIVE CountCards(_, _, _)
CountCards(counts, final_cards, i) ==
    IF i > Len(final_cards) THEN counts
    ELSE LET cat == final_cards[i].category
             own == Put(counts, cat, Get(counts, cat, 0) + 1)
         IN  CountCards(IF cat = <<>> THEN own
                        ELSE update_prefixes(own, Parent(cat), 1, 1),
                        final_cards, i + 1)

\* the structures reload_from_db commits when no step raises
Rebuild(rows, sent, physical_folders) ==
    LET final_cards == FinalCards(rows, sent)
        bundle_paths == ({Parent(rows[i].id) : i \in DOMAIN rows} \ {<<>>}) \cap sent
        new_global_tags == UNION {SeqToSet(final_cards[i].tags) : i \in DOMAIN final_cards}
        new_cat_counts == CountCards(EmptyDict, final_cards, 1)
        derived_folders == UNION {Prefixes(final_cards[i].category) : i \in DOMAIN final_cards}
        visible == SetToSeq(((derived_folders \cup physical_folders) \ bundle_paths) \ {<<>>})
    IN  [heap |-> [o \in DOMAIN final_cards |-> final_cards[o]],
         cards |-> [i \in DOMAIN final_cards |-> i],
         id_map |-> [k \in {final_cards[i].id : i \in DOMAIN final_cards} |->
                        CHOOSE i \in DOMAIN final_cards :
                            /\ final_cards[i].id = k
                            /\ \A j \in DOMAIN final_cards : final_cards[j].id = k => j <= i],
         bundle_map |-> [d \in bundle_paths |->
                            final_cards[CHOOSE i \in DOMAIN final_cards :
                                final_cards[i].is_bundle /\ final_cards[i].bundle_dir = d].id],
         global_tags |-> SortedTags(new_global_tags),
         category_counts |-> [f \in (DOMAIN new_cat_counts) \cup SeqToSet(visible) |->
                                Get(new_cat_counts, f, 0)],
         visible_folders |-> visible,
         initialized |-> TRUE]

\* a rebuild that counts into the existing category_counts instead of a fresh dict
reload_from_db_accumulating(C, rows, sent, physical_folders, fail) ==
    IF fail # "none" THEN C
    ELSE LET R == Rebuild(rows, sent, physical_folders)
         IN  [R EXCEPT !.category_counts =
                  [f \in (DOMAIN R.category_counts) \cup (DOMAIN C.category_counts) |->
                      Get(R.category_counts, f, 0) + Get(C.category_counts, f, 0)]]

\* a rebuild that empties the index before it starts, so a failure leaves it empty
reload_from_db_clearing(C, rows, sent, physical_folders, fail) ==
    IF fail # "none"
    THEN [C EXCEPT !.cards = <<>>, !.id_map = EmptyDict, !.heap = EmptyDict]
    ELSE Rebuild(rows, sent, physical_folders)

\* fail names the step that raises ("none": the rebuild succeeds); the except
\* clause keeps the old data
reload_from_db(C, rows, sent, physical_folders, fail) ==
    IF fail # "none" THEN C
    ELSE Rebuild(rows, sent, physical_folders)

\* ---------------------------------------------------------------- incremental operations
TagSet(C) == SeqToSet(C.global_tags)

InCards(C, o) == \E i \in DOMAIN C.cards : C.heap[C.cards[i]] = C.heap[o]

\* list.remove(card): drops the first element equal to card
RemoveFirst(C, o) ==
    LET i == CHOOSE k \in DOMAIN C.cards :
                 /\ C.heap[C.cards[k]] = C.heap[o]
                 /\ \A j \in 1..(k - 1) : C.heap[C.cards[j]] # C.heap[o]
    IN  SubSeq(C.cards, 1, i - 1) \o SubSeq(C.cards, i + 1, Len(C.cards))

\* an add that lists the card and leaves the counts alone
add_card_update_uncounted(C, new_card_data) ==
    LET o == NewOid(C.heap)
    IN  [C EXCEPT
            !.heap = Put(C.heap, o, new_card_data),
            !.cards = Append(C.cards, o),
            !.id_map = Put(C.id_map, new_card_data.id, o),
            !.global_tags = SortedTags(TagSet(C) \cup SeqToSet(new_card_data.tags))]

add_card_update(C, new_card_data) ==
    LET o == NewOid(C.heap)
    IN  [C EXCEPT
            !.heap = Put(C.heap, o, new_card_data),
            !.cards = Append(C.cards, o),
            !.id_map = Put(C.id_map, new_card_data.id, o),
            !.category_counts = update_category_count(C.category_counts,
                                                      new_card_data.category, 1),
            !.global_tags = SortedTags(TagSet(C) \cup SeqToSet(new_card_data.tags))]

\* merge of a patch dict into a card dict (keys the model does not keep are dropped)
Merge(card, new_data) ==
    [k \in DOMAIN card |-> IF k \in DOMAIN new_data THEN new_data[k] ELSE card[k]]

update_card_data(C, card_id, new_data) ==
    IF card_id \notin DOMAIN C.id_map THEN C
    ELSE LET o == C.id_map[card_id]
             card == C.heap[o]
             old_category == card.category
             new_category == Get(new_data, "category", old_category)
         IN  [C EXCEPT
                !.category_counts =
                    IF old_category # new_category
                    THEN update_category_count(
                             update_category_count(C.category_counts, old_category, -1),
                             new_category, 1)
                    ELSE C.category_counts,
                !.heap = Put(C.heap, o, Merge(card, new_data)),
                !.global_tags =
                    IF "tags" \in DOMAIN new_data
                    THEN SortedTags(TagSet(C) \cup SeqToSet(new_data.tags))
                    ELSE C.global_tags]

update_tags_update(C, card_id, new_tags) ==
    IF card_id \notin DOMAIN C.id_map THEN C
    ELSE LET o == C.id_map[card_id]
         IN  [C EXCEPT
                !.heap = Put(C.heap, o, [C.heap[o] EXCEPT !.tags = new_tags]),
                !.global_tags = SortedTags(TagSet(C) \cup SeqToSet(new_tags))]

toggle_favorite_update(C, card_id, new_status) ==
    IF card_id \notin DOMAIN C.id_map THEN C
    ELSE LET o == C.id_map[card_id]
         IN  [C EXCEPT !.heap = Put(C.heap, o, [C.heap[o] EXCEPT !.is_favorite = new_status])]

\* keys are visited in path order; the order only matters when two keys share an object
Keys(C, P(_)) == SetToSeq({k \in DOMAIN C.id_map : P(k)})

\* the re-keying step without the assignment card['id'] = new_id
MoveFolderOneStaleId(C, old_id, old_path_prefix, new_path_prefix) ==
    LET o == C.id_map[old_id]
        new_id == Rebase(old_id, old_path_prefix, new_path_prefix)
    IN  [C EXCEPT !.id_map = Put(Del(C.id_map, old_id), new_id, o)]

MoveFolderOne(C, old_id, old_path_prefix, new_path_prefix) ==
    LET o == C.id_map[old_id]
        card == C.heap[o]
        new_id == Rebase(old_id, old_path_prefix, new_path_prefix)
        old_cat == card.category
        new_cat == IF old_cat = old_path_prefix THEN new_path_prefix
                   ELSE IF IsUnder(old_cat, old_path_prefix)
                        THEN Rebase(old_cat, old_path_prefix, new_path_prefix)
                        ELSE Parent(new_id)
        b_dir == card.bundle_dir
        new_b_dir == IF ~card.is_bundle THEN b_dir
                     ELSE IF b_dir = old_path_prefix THEN new_path_prefix
                     ELSE IF IsUnder(b_dir, old_path_prefix)
                          THEN Rebase(b_dir, old_path_prefix, new_path_prefix)
                          ELSE b_dir
    IN  [C EXCEPT
            !.heap = Put(C.heap, o, [card EXCEPT !.id = new_id, !.category = new_cat,
                                                 !.bundle_dir = new_b_dir]),
            !.id_map = Put(Del(C.id_map, old_id), new_id, o)]

RECURSIVE MoveFolderAll(_, _, _, _)
MoveFolderAll(C, affected_ids, old_path_prefix, new_path_prefix) ==
    IF affected_ids = <<>> THEN C
    ELSE MoveFolderAll(MoveFolderOne(C, Head(affected_ids), old_path_prefix, new_path_prefix),
                       Tail(affected_ids), old_path_prefix, new_path_prefix)

move_folder_update(C, old_path_prefix, new_path_prefix) ==
    LET affected_ids == Keys(C, LAMBDA cid : IsUnder(cid, old_path_prefix))
        moved == recalculate_counts(
                     MoveFolderAll(C, affected_ids, old_path_prefix, new_path_prefix))
        new_visible == [i \in DOMAIN C.visible_folders |->
                           LET f == C.visible_folders[i]
                           IN  IF f = old_path_prefix THEN new_path_prefix
                               ELSE IF IsUnder(f, old_path_prefix)
                                    THEN Rebase(f, old_path_prefix, new_path_prefix)
                                    ELSE f]
    IN  [moved EXCEPT !.visible_folders = sorted(new_visible)]

rename_folder_update(C, old_path, new_path) == move_folder_update(C, old_path, new_path)

\* mtime: os.path.getmtime(full_path) of the moved file
move_card_update(C, old_id, new_id, old_category, new_category, mtime) ==
    IF old_id \notin DOMAIN C.id_map THEN C
    ELSE LET o == C.id_map[old_id]
             card == C.heap[o]
         IN  [C EXCEPT
                !.heap = Put(C.heap, o, [card EXCEPT !.id = new_id,
                                                     !.category = new_category,
                                                     !.last_modified = mtime]),
                !.id_map = Put(Del(C.id_map, old_id), new_id, o),
                !.category_counts =
                    IF old_category # new_category
                    THEN update_category_count(
                             update_category_count(C.category_counts, old_category, -1),
                             new_category, 1)
                    ELSE C.category_counts]

\* one iteration of the loop of move_bundle_update; R = [C, count_change]
MoveBundleOne(R, old_id, old_bundle_path, new_bundle_path, new_category) ==
    LET C == R.C
        o == C.id_map[old_id]
        card == C.heap[o]
        new_id == IF old_id = old_bundle_path THEN new_bundle_path
                  ELSE Rebase(old_id, old_bundle_path, new_bundle_path)
        moved == [card EXCEPT !.id = new_id, !.category = new_category,
                              !.bundle_dir = IF card.is_bundle THEN new_bundle_path
                                             ELSE card.bundle_dir]
        C1 == [C EXCEPT !.heap = Put(C.heap, o, moved),
                        !.id_map = Put(Del(C.id_map, old_id), new_id, o)]
    IN  [C |-> C1,
         count_change |-> IF card.is_bundle /\ InCards(C1, o) THEN 1 ELSE R.count_change]

RECURSIVE MoveBundleAll(_, _, _, _, _)
MoveBundleAll(R, entries_to_move, old_bundle_path, new_bundle_path, new_category) ==
    IF entries_to_move = <<>> THEN R
    ELSE MoveBundleAll(MoveBundleOne(R, Head(entries_to_move), old_bundle_path,
                                     new_bundle_path, new_category),
                       Tail(entries_to_move), old_bundle_path, new_bundle_path, new_category)

move_bundle_update(C, old_bundle_path, new_bundle_path, old_category, new_category) ==
    LET entries_to_move == Keys(C, LAMBDA cid : cid = old_bundle_path
                                                \/ IsUnder(cid, old_bundle_path))
        R == MoveBundleAll([C |-> C, count_change |-> 0], entries_to_move,
                           old_bundle_path, new_bundle_path, new_category)
    IN  IF R.count_change > 0 /\ old_category # new_category
        THEN [R.C EXCEPT !.category_counts =
                  update_category_count(
                      update_category_count(R.C.category_counts, old_category, -1),
                      new_category, 1)]
        ELSE R.C

delete_card_update_unguarded(C, card_id) ==
    IF card_id \notin DOMAIN C.id_map
    THEN [C EXCEPT !.category_counts =
                       update_category_count(C.category_counts, Parent(card_id), -1)]
    ELSE LET o == C.id_map[card_id]
             popped == [C EXCEPT !.id_map = Del(C.id_map, card_id)]
         IN  IF InCards(C, o)
             THEN [popped EXCEPT
                      !.cards = RemoveFirst(C, o),
                      !.category_counts = update_category_count(C.category_counts,
                                                                C.heap[o].category, -1)]
             ELSE popped

delete_card_update(C, card_id) ==
    IF card_id \notin DOMAIN C.id_map THEN C
    ELSE LET o == C.id_map[card_id]
             popped == [C EXCEPT !.id_map = Del(C.id_map, card_id)]
         IN  IF InCards(C, o)
             THEN [popped EXCEPT
                      !.cards = RemoveFirst(C, o),
                      !.category_counts = update_category_count(C.category_counts,
                                                                C.heap[o].category, -1)]
             ELSE popped

DeleteBundleOne(C, cid) ==
    LET o == C.id_map[cid]
        popped == [C EXCEPT !.id_map = Del(C.id_map, cid)]
    IN  IF InCards(C, o) THEN [popped EXCEPT !.cards = RemoveFirst(C, o)] ELSE popped

RECURSIVE DeleteBundleAll(_, _)
DeleteBundleAll(C, ids_to_remove) ==
    IF ids_to_remove = <<>> THEN C
    ELSE DeleteBundleAll(DeleteBundleOne(C, Head(ids_to_remove)), Tail(ids_to_remove))

BundleMatch(C, bundle_dir, cid) ==
    \/ C.heap[C.id_map[cid]].is_bundle /\ C.heap[C.id_map[cid]].bundle_dir = bundle_dir
    \/ IsUnder(cid, bundle_dir)

\* the categories the first loop of delete_bundle_update can end with: that of a
\* matched entry listed in cards (the last one in dict order), "" with found_main
\* unset when there is none
DeleteBundleMains(C, bundle_dir) ==
    {C.id_map[cid] : cid \in {k \in DOMAIN C.id_map :
                                 BundleMatch(C, bundle_dir, k) /\ InCards(C, C.id_map[k])}}

\* main: the oid whose category the first loop kept, 0 when found_main is False
delete_bundle_update(C, bundle_dir, main) ==
    LET ids_to_remove == Keys(C, LAMBDA cid : BundleMatch(C, bundle_dir, cid))
        removed == DeleteBundleAll(C, ids_to_remove)
    IN  IF main # 0
        THEN [removed EXCEPT !.category_counts =
                  update_category_count(C.category_counts, C.heap[main].category, -1)]
        ELSE removed

\* ---------------------------------------------------------------- handlers
InsertOrReplace(rows, row) ==
    Append(SelectSeq(rows, LAMBDA r : r.id # row.id), row)

ReloadSteps == {"none", "sidecar", "fetch", "aggregate"}

\* cache.reload_from_db() as called at start-up, by the reload timer and by force_reload
ReloadFromDb ==
    \E fail \in ReloadSteps :
        /\ Tick
        /\ UNCHANGED now
        /\ SetCache(reload_from_db(Cache, db, sentinels, folders, fail))
        /\ last' = [Op("reload", <<>>, <<>>, fail = "none") EXCEPT
                        !.again = fail = "none" /\ AfterReload]
        /\ UNCHANGED storeVars

\* api_upload_commit for one staged file
ApiUploadCommit ==
    \E category \in Dirs, f \in FileNames :
        LET rel_id == Append(category, f)
            mtime == now
            tags == FileTags(f)
            card_obj == [id |-> rel_id, category |-> category, is_bundle |-> FALSE,
                         bundle_dir |-> <<>>, versions |-> <<>>,
                         last_modified |-> mtime, tags |-> tags, is_favorite |-> FALSE]
        IN  /\ Tick
            /\ Stamp
            /\ rel_id \notin DbIds           \* no name conflict at the target
            /\ Len(db) < MaxFiles
            /\ db' = InsertOrReplace(db, [id |-> rel_id, category |-> Parent(rel_id),
                                          last_modified |-> mtime, tags |-> tags,
                                          is_favorite |-> FALSE])
            /\ folders' = folders \cup Prefixes(category)
            /\ SetCache(add_card_update(Cache, card_obj))
            /\ last' = Op("upload", <<>>, <<>>, TRUE)
            /\ UNCHANGED sentinels

\* SQL REPLACE(category, old, new) / str.replace: every occurrence, left to right
RECURSIVE ReplaceAll(_, _, _)
ReplaceAll(p, old, new) ==
    IF Len(p) < Len(old) THEN p
    ELSE IF SubSeq(p, 1, Len(old)) = old
         THEN new \o ReplaceAll(SubSeq(p, Len(old) + 1, Len(p)), old, new)
         ELSE <<Head(p)>> \o ReplaceAll(Tail(p), old, new)

MovePath(p, old, new) == IF p = old \/ IsUnder(p, old) THEN Rebase(p, old, new) ELSE p

\* shutil.move / os.rename of a directory: everything below it moves along
MoveDirs(S, old, new) == {MovePath(d, old, new) : d \in S}

\* rename_folder_in_db and the equivalent SQL in api_rename_folder / api_move_card
RenamePrefixInDb(rows, old_path, new_path) ==
    [i \in DOMAIN rows |->
        IF IsUnder(rows[i].id, old_path)
        THEN [rows[i] EXCEPT !.id = Rebase(rows[i].id, old_path, new_path),
                             !.category = ReplaceAll(rows[i].category, old_path, new_path)]
        ELSE rows[i]]

\* api_toggle_bundle_mode: enable writes the marker, disable removes it; both end in
\* force_reload.  The rebuild is taken to succeed here; a failing rebuild leaves the
\* index as it was and is explored by ReloadFromDb.
ApiToggleBundleMode ==
    \E folder_path \in Dirs \ {<<>>}, enable \in BOOLEAN :
        /\ Tick
        /\ UNCHANGED now
        /\ folder_path \in folders
        /\ enable => \E id \in DbIds : Parent(id) = folder_path
        /\ enable <=> folder_path \notin sentinels
        /\ sentinels' = IF enable THEN sentinels \cup {folder_path}
                        ELSE sentinels \ {folder_path}
        /\ SetCache(reload_from_db(Cache, db, sentinels', folders, "none"))
        /\ last' = Op("toggle_bundle", <<>>, <<>>, TRUE)
        /\ UNCHANGED <<db, folders>>

\* api_delete_cards for one id of the request
ApiDeleteCards ==
    /\ Tick
    /\ UNCHANGED now
    /\ \E cid \in (DOMAIN id_map) \cup DbIds :
        LET known == cid \in DOMAIN id_map
            is_bundle == known /\ heap[id_map[cid]].is_bundle
            bundle_dir == IF known THEN heap[id_map[cid]].bundle_dir ELSE <<>>
        IN  IF is_bundle
            THEN /\ bundle_dir # <<>>
                 /\ bundle_dir \in folders
                 /\ db' = SelectSeq(db, LAMBDA r : ~IsUnder(r.id, bundle_dir))
                 /\ folders' = {d \in folders : d # bundle_dir /\ ~IsUnder(d, bundle_dir)}
                 /\ sentinels' = {d \in sentinels : d # bundle_dir /\ ~IsUnder(d, bundle_dir)}
                 /\ \E main \in IF DeleteBundleMains(Cache, bundle_dir) = {} THEN {0}
                                ELSE DeleteBundleMains(Cache, bundle_dir) :
                        SetCache(delete_bundle_update(Cache, bundle_dir, main))
                 /\ last' = Op("delete_bundle", <<>>, <<>>, TRUE)
            ELSE /\ db' = SelectSeq(db, LAMBDA r : r.id # cid)
                 /\ SetCache(delete_card_update(Cache, cid))
                 /\ last' = [Op("delete_card", <<>>, <<>>, TRUE) EXCEPT !.found = known]
                 /\ UNCHANGED <<folders, sentinels>>

\* api_move_card for one id of the request
ApiMoveCard ==
    /\ Tick
    /\ UNCHANGED now
    /\ \E cid \in DOMAIN id_map, target_cat \in Dirs :
        LET card_info == heap[id_map[cid]]
            old_category == card_info.category
        IN  IF card_info.is_bundle
            THEN LET bundle_rel_dir == card_info.bundle_dir
                     new_bundle_rel_dir == Append(target_cat, Basename(bundle_rel_dir))
                 IN  /\ bundle_rel_dir # <<>>
                     /\ bundle_rel_dir \in folders
                     /\ new_bundle_rel_dir # bundle_rel_dir
                     /\ new_bundle_rel_dir \notin folders        \* no name conflict at the target
                     /\ target_cat # bundle_rel_dir /\ ~IsUnder(target_cat, bundle_rel_dir)
                     /\ db' = RenamePrefixInDb(db, bundle_rel_dir, new_bundle_rel_dir)
                     /\ folders' = MoveDirs(folders, bundle_rel_dir, new_bundle_rel_dir)
                                       \cup Prefixes(target_cat)
                     /\ folders' \subseteq Dirs                  \* stays within the explored paths
                     /\ sentinels' = MoveDirs(sentinels, bundle_rel_dir, new_bundle_rel_dir)
                     /\ SetCache(move_bundle_update(Cache, bundle_rel_dir, new_bundle_rel_dir,
                                                    old_category, target_cat))
                     /\ last' = Op("move_bundle", <<>>, <<>>, TRUE)
            ELSE LET new_id == Append(target_cat, Basename(cid))
                 IN  /\ cid \in DbIds
                     /\ Parent(cid) # target_cat
                     /\ new_id \notin DbIds                     \* no name conflict at the target
                     /\ db' = [i \in DOMAIN db |->
                                  IF db[i].id = cid
                                  THEN [db[i] EXCEPT !.id = new_id, !.category = target_cat]
                                  ELSE db[i]]
                     /\ folders' = folders \cup Prefixes(target_cat)
                     /\ SetCache(move_card_update(Cache, cid, new_id, old_category, target_cat,
                                                  Row(db, cid).last_modified))
                     /\ last' = Op("move_card", <<>>, <<>>, TRUE)
                     /\ UNCHANGED sentinels

\* move_card_internal(card_id, target_category): card_id is a card file or a bundle directory
MoveCardInternal ==
    \E card_id \in DbIds \cup sentinels, target_category \in Dirs :
        LET is_directory == card_id \in sentinels
            new_id == Append(target_category, Basename(card_id))
            old_category == IF card_id \in DOMAIN id_map
                            THEN heap[id_map[card_id]].category
                            ELSE Parent(card_id)
        IN  /\ Tick
            /\ UNCHANGED now
            /\ is_directory => card_id \in folders
            /\ Parent(card_id) # target_category
            /\ IF is_directory
               THEN /\ new_id \notin folders                    \* no name conflict at the target
                    /\ target_category # card_id /\ ~IsUnder(target_category, card_id)
                    /\ db' = [i \in DOMAIN db |->
                                 IF IsUnder(db[i].id, card_id)
                                 THEN [db[i] EXCEPT !.id = Rebase(db[i].id, card_id, new_id),
                                                    !.category = new_id]
                                 ELSE db[i]]
                    /\ folders' = MoveDirs(folders, card_id, new_id)
                                      \cup Prefixes(target_category)
                    /\ folders' \subseteq Dirs                   \* stays within the explored paths
                    /\ sentinels' = MoveDirs(sentinels, card_id, new_id)
                    /\ SetCache(move_bundle_update(Cache, card_id, new_id, old_category, new_id))
                    /\ last' = Op("move_internal_dir", <<>>, <<>>, TRUE)
               ELSE /\ new_id \notin DbIds                     \* no name conflict at the target
                    /\ db' = [i \in DOMAIN db |->
                                 IF db[i].id = card_id
                                 THEN [db[i] EXCEPT !.id = new_id,
                                                    !.category = target_category]
                                 ELSE db[i]]
                    /\ folders' = folders \cup Prefixes(target_category)
                    /\ SetCache(move_card_update(Cache, card_id, new_id, old_category,
                                                 target_category,
                                                 Row(db, card_id).last_modified))
                    /\ last' = [Op("move_internal_file", <<>>, <<>>, TRUE) EXCEPT
                                    !.found = card_id \in DOMAIN id_map]
                    /\ UNCHANGED sentinels

\* what both folder handlers do once the new path is known
FolderMoved(name, source_path, new_path_prefix) ==
    /\ Tick
    /\ UNCHANGED now
    /\ source_path \in folders
    /\ new_path_prefix \notin folders                           \* target does not exist
    /\ db' = RenamePrefixInDb(db, source_path, new_path_prefix)
    /\ folders' = MoveDirs(folders, source_path, new_path_prefix)
    /\ folders' \subseteq Dirs                                  \* stays within the explored paths
    /\ sentinels' = MoveDirs(sentinels, source_path, new_path_prefix)
    /\ SetCache(move_folder_update(Cache, source_path, new_path_prefix))
    /\ last' = Op(name, source_path, new_path_prefix, TRUE)

\* api_move_folder, scenario A (the target does not exist yet)
ApiMoveFolder ==
    \E source_path \in Dirs \ {<<>>}, target_parent_path \in Dirs :
        /\ target_parent_path = <<>> \/ target_parent_path \in folders
        /\ target_parent_path # source_path /\ ~IsUnder(target_parent_path, source_path)
        /\ FolderMoved("move_folder", source_path,
                       Append(target_parent_path, Basename(source_path)))

\* api_rename_folder
ApiRenameFolder ==
    \E old_path \in Dirs \ {<<>>}, new_name \in DirNames :
        FolderMoved("rename_folder", old_path, Append(Parent(old_path), new_name))

\* the edited file's row of card_metadata as update_card_cache writes it, and the
\* Bundle re-aggregation at the end of api_update_card
Reaggregate(C, rows, bundle_dir, final_rel_path_id, current_mtime, update_payload) ==
    LET by_category == SelectSeq(rows, LAMBDA r : r.category = bundle_dir)
        selected == IF by_category # <<>> THEN by_category
                    ELSE SelectSeq(rows, LAMBDA r : IsUnder(r.id, bundle_dir))
        v_objs == [i \in DOMAIN selected |->
                     [id |-> selected[i].id,
                      last_modified |-> IF selected[i].id = final_rel_path_id
                                        THEN current_mtime
                                        ELSE selected[i].last_modified]]
        version_list == SortByMtimeDesc(v_objs)
        new_leader_stub == version_list[1]
        stub_copy == [id |-> new_leader_stub.id, category |-> bundle_dir,
                      is_bundle |-> FALSE, bundle_dir |-> bundle_dir, versions |-> <<>>,
                      last_modified |-> new_leader_stub.last_modified, tags |-> <<>>,
                      is_favorite |-> FALSE]     \* keys the stub lacks read as [] / falsy
        completed == IF new_leader_stub.id = final_rel_path_id
                     THEN Merge(stub_copy, update_payload)
                     ELSE IF new_leader_stub.id \in DOMAIN C.id_map
                          THEN Merge(stub_copy, C.heap[C.id_map[new_leader_stub.id]])
                          ELSE stub_copy
        bundle_card == [completed EXCEPT
                           !.is_bundle = TRUE,
                           !.bundle_dir = bundle_dir,
                           !.versions = [i \in DOMAIN version_list |->
                                            VersionStub(version_list[i])]]
        o == NewOid(C.heap)
        listed == {i \in DOMAIN C.cards : /\ C.heap[C.cards[i]].is_bundle
                                          /\ C.heap[C.cards[i]].bundle_dir = bundle_dir}
        idx == CHOOSE i \in listed : \A j \in listed : i <= j
    IN  IF selected = <<>> THEN C
        ELSE [C EXCEPT
                !.heap = Put(C.heap, o, bundle_card),
                !.bundle_map = Put(C.bundle_map, bundle_dir, bundle_card.id),
                !.id_map = Put(C.id_map, bundle_card.id, o),
                !.cards = IF listed # {} THEN [C.cards EXCEPT ![idx] = o]
                          ELSE <<o>> \o C.cards]

\* api_update_card: the file is rewritten (and renamed when new_filename differs)
ApiUpdateCard ==
    \E raw_id \in DbIds, new_filename \in FileNames, file_content_modified \in BOOLEAN :
        LET final_rel_path_id == Append(Parent(raw_id), new_filename)
            should_touch_file == file_content_modified \/ new_filename # Basename(raw_id)
            current_mtime == IF should_touch_file THEN now ELSE Row(db, raw_id).last_modified
            tags == Row(db, raw_id).tags
            current_fav == IF final_rel_path_id \in DbIds
                           THEN Row(db, final_rel_path_id).is_favorite ELSE FALSE
            written == InsertOrReplace(db, [id |-> final_rel_path_id,
                                            category |-> Parent(final_rel_path_id),
                                            last_modified |-> current_mtime,
                                            tags |-> tags,
                                            is_favorite |-> current_fav])
            rows == SelectSeq(written, LAMBDA r : r.id = final_rel_path_id \/ r.id # raw_id)
            update_payload == [id |-> final_rel_path_id, tags |-> tags,
                               last_modified |-> current_mtime]
            C1 == update_card_data(Cache, raw_id, update_payload)
            C2 == IF raw_id = final_rel_path_id THEN C1
                  ELSE IF raw_id \in DOMAIN id_map
                       THEN [C1 EXCEPT !.id_map = Put(Del(C1.id_map, raw_id),
                                                      final_rel_path_id, id_map[raw_id])]
                       ELSE C1
            bundle_dir == Parent(final_rel_path_id)
        IN  /\ Tick
            /\ IF should_touch_file THEN Stamp ELSE UNCHANGED now
            /\ raw_id # final_rel_path_id => final_rel_path_id \notin DbIds
            /\ db' = rows
            /\ SetCache(IF bundle_dir \in sentinels
                        THEN Reaggregate(C2, rows, bundle_dir, final_rel_path_id,
                                         current_mtime, update_payload)
                        ELSE C2)
            /\ last' = [Op("update_card", <<>>, <<>>, TRUE) EXCEPT
                            !.found = raw_id \in DOMAIN id_map]
            /\ UNCHANGED <<sentinels, folders>>

\* api_toggle_favorite
ApiToggleFavorite ==
    \E card_id \in DbIds :
        LET new_status == ~Row(db, card_id).is_favorite
        IN  /\ Tick
            /\ UNCHANGED now
            /\ db' = [i \in DOMAIN db |->
                         IF db[i].id = card_id
                         THEN [db[i] EXCEPT !.is_favorite = new_status] ELSE db[i]]
            /\ SetCache(toggle_favorite_update(Cache, card_id, new_status))
            /\ last' = [Op("toggle_favorite", <<>>, <<>>, TRUE) EXCEPT
                            !.found = card_id \in DOMAIN id_map]
            /\ UNCHANGED <<sentinels, folders>>

\* modify_card_attributes_internal(card_id, remove_tags = [tag]): the tag part
ModifyCardAttributesInternal ==
    \E card_id \in DbIds, tag \in {"a", "b"} :
        LET current_tags == Row(db, card_id).tags
            new_tags == SortedTags(SeqToSet(current_tags) \ {tag})
        IN  /\ Tick
            /\ UNCHANGED now
            /\ new_tags # SortedTags(SeqToSet(current_tags))
            /\ db' = [i \in DOMAIN db |->
                         IF db[i].id = card_id
                         THEN [db[i] EXCEPT !.tags = new_tags] ELSE db[i]]
            /\ SetCache(update_tags_update(Cache, card_id, new_tags))
            /\ last' = [Op("update_tags", <<>>, <<>>, TRUE) EXCEPT
                            !.found = card_id \in DOMAIN id_map]
            /\ UNCHANGED <<sentinels, folders>>

Next ==
    \/ ReloadFromDb
    \/ ApiUploadCommit
    \/ ApiToggleBundleMode
    \/ ApiDeleteCards
    \/ ApiMoveCard
    \/ MoveCardInternal
    \/ ApiMoveFolder
    \/ ApiRenameFolder
    \/ ApiUpdateCard

Spec == Init /\ [][Next]_vars

\* The operations that address one card by its id, with the uploads, deletions,
\* reloads and bundle conversions that make ids come and go.
NextAttr ==
    \/ ReloadFromDb
    \/ ApiUploadCommit
    \/ ApiToggleBundleMode
    \/ ApiDeleteCards
    \/ ApiToggleFavorite
    \/ ModifyCardAttributesInternal

SpecAttr == Init /\ [][NextAttr]_vars

\* ---------------------------------------------------------------- properties
Card(i) == heap[cards[i]]

Under(p) == {i \in DOMAIN cards : Card(i).category = p \/ IsUnder(Card(i).category, p)}

\* C1: category_counts[""] equals the number of entries of cards whose category is ""
\* (a missing key is read as 0).
C1_RootCount ==
    Get(category_counts, <<>>, 0) = Cardinality({i \in DOMAIN cards : Card(i).category = <<>>})

\* C2: for every non-empty category path p, category_counts[p] is the number of
\* entries of cards whose category is p or lies under p, and every category of an
\* entry and each of its ancestors is a key of category_counts.
C2_RollUp ==
    /\ \A p \in (DOMAIN category_counts) \ {<<>>} :
           category_counts[p] = Cardinality(Under(p))
    /\ \A i \in DOMAIN cards : Prefixes(Card(i).category) \subseteq DOMAIN category_counts

\* C3: every key of id_map maps to an object that is an element of cards; for a plain
\* card it is the very same object.
C3_IdMapListed ==
    \A k \in DOMAIN id_map :
        IF heap[id_map[k]].is_bundle
        THEN \E i \in DOMAIN cards : Card(i) = heap[id_map[k]]
        ELSE id_map[k] \in SeqToSet(cards)

\* C4: after a successful reload_from_db every version id of every Bundle in cards is
\* a key of id_map and maps to that Bundle object.
C4_VersionIdsMapped ==
    AfterReload =>
        \A i \in DOMAIN cards :
            Card(i).is_bundle =>
                \A v \in DOMAIN Card(i).versions :
                    /\ Card(i).versions[v].id \in DOMAIN id_map
                    /\ id_map[Card(i).versions[v].id] = cards[i]

\* C5: every Bundle in cards has a versions list in descending last_modified order
\* whose first element has the Bundle's own id.
C5_BundleLeader ==
    \A i \in DOMAIN cards :
        Card(i).is_bundle =>
            /\ Card(i).versions # <<>>
            /\ Card(i).versions[1].id = Card(i).id
            /\ \A a, b \in DOMAIN Card(i).versions :
                   a < b => Card(i).versions[a].last_modified
                                >= Card(i).versions[b].last_modified

\* C6: the category of every Bundle is the parent path of its bundle_dir.
C6_BundleCategory ==
    \A i \in DOMAIN cards :
        Card(i).is_bundle => Card(i).category = Parent(Card(i).bundle_dir)

\* the stored records whose file lies directly in directory d
SentinelRecords(d) == SelectSeq(db, LAMBDA r : Parent(r.id) = d)

DistinctTimes(rs) ==
    \A i, j \in DOMAIN rs : i # j => rs[i].last_modified # rs[j].last_modified

Newest(rs) ==
    CHOOSE r \in SeqToSet(rs) : \A q \in SeqToSet(rs) : q.last_modified <= r.last_modified

BundlesOf(d) == {i \in DOMAIN cards : Card(i).is_bundle /\ Card(i).bundle_dir = d}

\* C7: after reload_from_db, a sentinel directory with n >= 1 stored records of
\* pairwise distinct last_modified is shown as exactly one Bundle, which has the id,
\* tags and last_modified of the newest record and lists all n records as versions
\* in descending last_modified order; none of the n records is listed on its own.
C7_BundleAggregation ==
    AfterReload =>
        \A d \in sentinels :
            LET rs == SentinelRecords(d)
            IN  (rs # <<>> /\ DistinctTimes(rs)) =>
                    /\ Cardinality(BundlesOf(d)) = 1
                    /\ \A i \in BundlesOf(d) :
                           /\ Card(i).id = Newest(rs).id
                           /\ Card(i).tags = Newest(rs).tags
                           /\ Card(i).last_modified = Newest(rs).last_modified
                           /\ Len(Card(i).versions) = Len(rs)
                           /\ SeqToSet(Card(i).versions)
                                  = {[id |-> rs[k].id, last_modified |-> rs[k].last_modified] :
                                         k \in DOMAIN rs}
                           /\ \A a, b \in DOMAIN Card(i).versions :
                                  a < b => Card(i).versions[a].last_modified
                                               > Card(i).versions[b].last_modified
                    /\ \A i \in (DOMAIN cards) \ BundlesOf(d) :
                           \A k \in DOMAIN rs : Card(i).id # rs[k].id

\* a rebuilt index holding a Bundle of two versions whose older record is stored first
C7_Witness ==
    /\ AfterReload
    /\ \E d \in sentinels :
           /\ Len(SentinelRecords(d)) = 2
           /\ SentinelRecords(d)[1].last_modified < SentinelRecords(d)[2].last_modified
           /\ BundlesOf(d) # {}

Entries == [i \in DOMAIN cards |-> Card(i)]

NoIdUnder(prefix) == \A k \in DOMAIN id_map : ~IsUnder(k, prefix)

Rekeyed(k, A, B) == IF IsUnder(k, A) THEN Rebase(k, A, B) ELSE k

\* C10: move_folder_update(A, B) on an index with no id under B rewrites exactly the
\* keys of id_map under A to lie under B, loses and duplicates no key, keeps
\* len(cards), and leaves every re-keyed object with an id equal to its new key.
C10_MoveFolderRekeys ==
    [][(last'.op \in {"move_folder", "rename_folder"} /\ NoIdUnder(last'.b)) =>
           LET A == last'.a
               B == last'.b
           IN  /\ DOMAIN id_map' = {Rekeyed(k, A, B) : k \in DOMAIN id_map}
               /\ Cardinality(DOMAIN id_map') = Cardinality(DOMAIN id_map)
               /\ Len(cards') = Len(cards)
               /\ \A k \in DOMAIN id_map :
                      IsUnder(k, A) => heap'[id_map'[Rekeyed(k, A, B)]].id = Rekeyed(k, A, B)
               /\ \A k \in DOMAIN id_map : id_map'[Rekeyed(k, A, B)] = id_map[k]]_vars

\* a folder move that re-keyed the id of a Bundle and left another id alone
C10_Witness ==
    /\ last.op = "move_folder"
    /\ \E k \in DOMAIN id_map : IsUnder(k, last.b) /\ heap[id_map[k]].is_bundle
    /\ \E k \in DOMAIN id_map : ~IsUnder(k, last.b)
    /\ \E k \in DOMAIN id_map : ~IsUnder(k, last.b)

\* sum of the counts of the root-level categories (paths of one segment)
RECURSIVE SumOver(_, _)
SumOver(counts, keys) ==
    IF keys = {} THEN 0
    ELSE LET k == CHOOSE x \in keys : TRUE
         IN  counts[k] + SumOver(counts, keys \ {k})

RootLevelSum(counts) == SumOver(counts, {p \in DOMAIN counts : Len(p) = 1})

\* C11: move_folder_update(A, B) leaves category_counts[""] (a missing key read as 0)
\* and the sum of the counts of the root-level categories as they were.
C11_MoveFolderKeepsTotals ==
    [][(last'.op \in {"move_folder", "rename_folder"}) =>
           /\ Get(category_counts', <<>>, 0) = Get(category_counts, <<>>, 0)
           /\ RootLevelSum(category_counts') = RootLevelSum(category_counts)]_vars

\* ids that requests name without a card behind them: two that were never stored,
\* and every id the database holds (a version inside a Bundle has a row but may
\* have no key)
GhostIds == {<<"x">>, <<"A", "y">>}

AbsentIds == (GhostIds \cup DbIds) \ DOMAIN id_map

\* C12: update_card_data, update_tags_update, move_card_update, delete_card_update and
\* toggle_favorite_update, called with an id that is not a key of id_map, leave cards,
\* id_map, bundle_map, global_tags, category_counts and visible_folders (and the card
\* objects) as they were.
C12_AbsentIdNoOp ==
    \A card_id \in AbsentIds :
        /\ update_card_data(Cache, card_id, [tags |-> <<"a">>]) = Cache
        /\ update_card_data(Cache, card_id, [category |-> <<"B">>]) = Cache
        /\ \A new_tags \in {<<>>, <<"a">>} :
               update_tags_update(Cache, card_id, new_tags) = Cache
        /\ \A new_category \in {<<>>, <<"B">>} :
               move_card_update(Cache, card_id, Append(new_category, Basename(card_id)),
                                Parent(card_id), new_category, now) = Cache
        /\ delete_card_update(Cache, card_id) = Cache
        /\ \A new_status \in BOOLEAN :
               toggle_favorite_update(Cache, card_id, new_status) = Cache

\* a handler has just called an incremental operation with an id that id_map lacked,
\* while the index held other cards
C12_Witness ==
    /\ last.op \in {"delete_card", "toggle_favorite", "update_tags"}
    /\ ~last.found
    /\ cards # <<>>
    /\ category_counts # EmptyDict

IncrementalOps == {"update_card_data", "update_tags_update", "move_card_update",
                   "delete_card_update", "toggle_favorite_update"}

\* what the operation hands back to its caller: a method that ends without a return
\* statement hands back None
ReturnValue(op, C, card_id) ==
    CASE op = "update_card_data" ->
             IF card_id \in DOMAIN C.id_map THEN "card" ELSE "None"
      [] op = "toggle_favorite_update" ->
             IF card_id \in DOMAIN C.id_map THEN "True" ELSE "False"
      [] op = "update_tags_update" -> "None"
      [] op = "move_card_update" -> "None"
      [] op = "delete_card_update" -> "None"

\* C13: every incremental operation tells its caller whether it was applied: the value
\* it returns for an id absent from id_map differs from the value it returns for an id
\* that is present.
C13_NotFoundDistinguishable ==
    \A op \in IncrementalOps :
        \A present \in DOMAIN id_map, absent \in AbsentIds :
            ReturnValue(op, Cache, present) # ReturnValue(op, Cache, absent)

\* the tags carried by the entries of cards
TagsOfCards == UNION {SeqToSet(heap[cards[i]].tags) : i \in DOMAIN cards}

\* C14: global_tags is the sorted, duplicate-free sequence of exactly the tags carried
\* by the entries of cards.
C14_GlobalTagsAreUnion ==
    global_tags = SortedTags(TagsOfCards)

\* ---------------------------------------------------------------- scan scheduling
ScanDebounce == 1       \* threading.Timer(1.0, ...), counted in debounce intervals
SuppressSeconds == {1, 2}

\* one debounce interval passes on the clock
Advance ==
    /\ clock < MaxClock
    /\ clock' = clock + 1
    /\ UNCHANGED <<indexVars, lockVars, moreVars, reloadVars, fs_ignore_until, fs_event, caller, scan_debounce_timer,
                   scan_queue, scan_active, starter, worker, status, hist>>

\* ctx.update_fs_ignore(seconds) and ctx.should_ignore_fs_event()
update_fs_ignore(t, seconds) == t + seconds

should_ignore_fs_event(t, deadline) == t <= deadline

\* suppress_fs_events(seconds)
SuppressFsEvents ==
    \E seconds \in SuppressSeconds :
        /\ fs_ignore_until' = update_fs_ignore(clock, seconds)
        /\ UNCHANGED <<indexVars, lockVars, moreVars, reloadVars, clock, fs_event, caller, scan_debounce_timer,
                       scan_queue, scan_active, starter, worker, status, hist>>

\* a thread enters request_scan at time t
Called(h, t) ==
    [h EXCEPT !.calls = h.calls + 1,
              !.called_at = t,
              !.burst = h.burst /\ (h.calls = 0 \/ t - h.called_at < ScanDebounce)]

\* Handler.on_any_event: does the event reach request_scan
on_any_event_ignoring_nothing(is_directory, ignore, is_card) ==
    ~is_directory /\ is_card

on_any_event(is_directory, ignore, is_card) ==
    IF is_directory THEN FALSE
    ELSE IF ignore THEN FALSE
    ELSE IF ~is_card THEN FALSE
    ELSE TRUE

\* the observer thread delivers one event
OnAnyEvent ==
    \E is_directory \in BOOLEAN, is_card \in BOOLEAN :
        LET requested == on_any_event(is_directory,
                                      should_ignore_fs_event(clock, fs_ignore_until),
                                      is_card)
        IN  /\ caller["watchdog"] = "idle"
            /\ hist.calls < MaxCalls
            /\ fs_event' = [at |-> clock, deadline |-> fs_ignore_until,
                            is_directory |-> is_directory, is_card |-> is_card,
                            requested |-> requested]
            /\ IF requested
               THEN /\ caller' = [caller EXCEPT !["watchdog"] = "request_scan"]
                    /\ hist' = Called(hist, clock)
               ELSE UNCHANGED <<caller, hist>>
            /\ UNCHANGED <<indexVars, lockVars, moreVars, reloadVars, clock, fs_ignore_until, scan_debounce_timer,
                           scan_queue, scan_active, starter, worker, status>>

\* api_scan_now: a request thread calls request_scan(reason="manual")
ApiScanNow ==
    /\ caller["api"] = "idle"
    /\ hist.calls < MaxCalls
    /\ caller' = [caller EXCEPT !["api"] = "request_scan"]
    /\ hist' = Called(hist, clock)
    /\ UNCHANGED <<indexVars, lockVars, moreVars, reloadVars, clock, fs_ignore_until, fs_event, scan_debounce_timer,
                   scan_queue, scan_active, starter, worker, status>>

\* request_scan, the section under ctx.scan_debounce_lock: cancel() stops a timer
\* that still waits and does nothing to one that has fired; then a new timer starts
RequestScan ==
    \E t \in Callers :
        /\ caller[t] = "request_scan"
        /\ scan_debounce_timer' = [state |-> "waiting", due |-> clock + ScanDebounce]
        /\ caller' = [caller EXCEPT ![t] = "idle"]
        /\ UNCHANGED <<indexVars, lockVars, moreVars, reloadVars, clock, fs_ignore_until, fs_event, scan_queue,
                       scan_active, starter, worker, status, hist>>

\* cycles in progress
Running == {worker[w].cycle : w \in {v \in Workers : worker[v].pc = "scan"}}

\* the timer thread, its interval over and not cancelled, runs the lambda
ScanTimerFire ==
    /\ scan_debounce_timer.state = "waiting"
    /\ clock >= scan_debounce_timer.due
    /\ scan_debounce_timer' = [scan_debounce_timer EXCEPT !.state = "fired"]
    /\ scan_queue' = Append(scan_queue, [type |-> "FULL_SCAN", during |-> Running])
    /\ hist' = [hist EXCEPT !.enqueued = hist.enqueued + 1]
    /\ UNCHANGED <<indexVars, lockVars, moreVars, reloadVars, clock, fs_ignore_until, fs_event, caller, scan_active,
                   starter, worker, status>>

\* start_background_scanner: the test of ctx.scan_active ...
StartCheck ==
    \E t \in Starters :
        /\ starter[t] = "idle"
        /\ starter' = [starter EXCEPT ![t] = IF ~scan_active THEN "start" ELSE "done"]
        /\ UNCHANGED <<indexVars, lockVars, moreVars, reloadVars, clock, fs_ignore_until, fs_event, caller,
                       scan_debounce_timer, scan_queue, scan_active, worker, status, hist>>

\* ... and, in the thread that found it False, the assignment and the new thread
StartThread ==
    \E t \in Starters :
        /\ starter[t] = "start"
        /\ scan_active' = TRUE
        /\ LET w == CHOOSE v \in Workers :
                        worker[v].pc = "none" /\ \A u \in Workers : u < v => worker[u].pc # "none"
           IN  worker' = [worker EXCEPT ![w].pc = "get"]
        /\ starter' = [starter EXCEPT ![t] = "done"]
        /\ UNCHANGED <<indexVars, lockVars, moreVars, reloadVars, clock, fs_ignore_until, fs_event, caller,
                       scan_debounce_timer, scan_queue, status, hist>>

\* init_services: ctx.set_status(status="ready") after start_background_scanner
SetReady ==
    /\ starter["init_services"] = "done"
    /\ status = "initializing"
    /\ status' = "ready"
    /\ UNCHANGED <<indexVars, lockVars, moreVars, reloadVars, clock, fs_ignore_until, fs_event, caller,
                   scan_debounce_timer, scan_queue, scan_active, starter, worker, hist>>

\* background_scanner: scan_queue.get(), then the test of init_status
WorkerGet ==
    \E w \in Workers :
        /\ worker[w].pc = "get"
        /\ scan_queue # <<>>
        /\ scan_queue' = Tail(scan_queue)
        /\ LET task == Head(scan_queue)
           IN  IF task.type = "STOP"
               THEN /\ scan_active' = FALSE
                    /\ worker' = [worker EXCEPT ![w].pc = "stopped", ![w].task = task]
                    /\ UNCHANGED hist
               ELSE IF status # "ready"
               THEN /\ worker' = [worker EXCEPT ![w].pc = "sleep", ![w].task = task]
                    /\ UNCHANGED <<hist, scan_active>>
               ELSE /\ worker' = [worker EXCEPT ![w].pc = "scan", ![w].task = task,
                                                ![w].cycle = hist.cycles + 1]
                    /\ hist' = [hist EXCEPT
                                   !.cycles = hist.cycles + 1,
                                   !.caused = Append([c \in DOMAIN hist.caused |->
                                                         hist.caused[c] +
                                                         IF c \in task.during THEN 1 ELSE 0],
                                                     0)]
                    /\ UNCHANGED scan_active
        /\ UNCHANGED <<indexVars, lockVars, moreVars, reloadVars, clock, fs_ignore_until, fs_event, caller,
                       scan_debounce_timer, starter, status>>

\* background_scanner while the application initialises: sleep, put the task back
WorkerRequeue ==
    \E w \in Workers :
        /\ worker[w].pc = "sleep"
        /\ scan_queue' = Append(scan_queue, worker[w].task)
        /\ worker' = [worker EXCEPT ![w].pc = "get", ![w].task = NoTask]
        /\ UNCHANGED <<indexVars, lockVars, moreVars, reloadVars, clock, fs_ignore_until, fs_event, caller,
                       scan_debounce_timer, scan_active, starter, status, hist>>

\* background_scanner: _perform_scan_logic returns, task_done(), back to get()
WorkerScanDone ==
    \E w \in Workers :
        /\ worker[w].pc = "scan"
        /\ worker' = [worker EXCEPT ![w].pc = "get", ![w].task = NoTask, ![w].cycle = 0]
        /\ UNCHANGED <<indexVars, lockVars, moreVars, reloadVars, clock, fs_ignore_until, fs_event, caller,
                       scan_debounce_timer, scan_queue, scan_active, starter, status, hist>>

\* the thread after an exception inside the loop body, had the try statement been
\* around the loop
after_exception_ending(w_rec) ==
    [w_rec EXCEPT !.pc = "stopped", !.failed = TRUE]

\* the thread after an exception inside the loop body: the except clause of the
\* try statement inside "while True" logs and sleeps
after_exception(w_rec) ==
    [w_rec EXCEPT !.pc = "except", !.failed = TRUE]

\* background_scanner: _perform_scan_logic raises
WorkerScanRaises ==
    \E w \in Workers :
        /\ worker[w].pc = "scan"
        /\ worker' = [worker EXCEPT ![w] = after_exception(worker[w])]
        /\ UNCHANGED <<indexVars, lockVars, moreVars, reloadVars, clock, fs_ignore_until, fs_event, caller,
                       scan_debounce_timer, scan_queue, scan_active, starter, status, hist>>

\* background_scanner: time.sleep(5) of the except clause is over, next iteration
WorkerResumes ==
    \E w \in Workers :
        /\ worker[w].pc = "except"
        /\ worker' = [worker EXCEPT ![w].pc = "get", ![w].task = NoTask, ![w].cycle = 0]
        /\ UNCHANGED <<indexVars, lockVars, moreVars, reloadVars, clock, fs_ignore_until, fs_event, caller,
                       scan_debounce_timer, scan_queue, scan_active, starter, status, hist>>

\* a STOP task is put on ctx.scan_queue
PutStop ==
    /\ \A i \in DOMAIN scan_queue : scan_queue[i].type # "STOP"
    /\ \A w \in Workers : worker[w].pc # "stopped"
    /\ scan_queue' = Append(scan_queue, [type |-> "STOP", during |-> {}])
    /\ UNCHANGED <<indexVars, lockVars, moreVars, reloadVars, clock, fs_ignore_until, fs_event, caller,
                   scan_debounce_timer, scan_active, starter, worker, status, hist>>

\* the watcher side alone: events, suppression, debounce timer
NextWatch ==
    \/ Advance
    \/ SuppressFsEvents
    \/ OnAnyEvent
    \/ ApiScanNow
    \/ RequestScan
    \/ ScanTimerFire

SpecWatch == Init /\ [][NextWatch]_vars

NextScan ==
    \/ Advance
    \/ SuppressFsEvents
    \/ OnAnyEvent
    \/ ApiScanNow
    \/ RequestScan
    \/ ScanTimerFire
    \/ StartCheck
    \/ StartThread
    \/ SetReady
    \/ WorkerGet
    \/ WorkerRequeue
    \/ WorkerScanDone

SpecScan == Init /\ [][NextScan]_vars

\* the worker side alone: manual scan requests, the worker loop with its failures
\* and its STOP task
NextWorker ==
    \/ Advance
    \/ ApiScanNow
    \/ RequestScan
    \/ ScanTimerFire
    \/ StartCheck
    \/ StartThread
    \/ SetReady
    \/ WorkerGet
    \/ WorkerRequeue
    \/ WorkerScanDone
    \/ WorkerScanRaises
    \/ WorkerResumes
    \/ PutStop

SpecWorker == Init /\ [][NextWorker]_vars

\* C15: a watch event for a card file reaches request_scan exactly when it arrives
\* strictly after the suppression deadline; while every event so far was dropped, no
\* timer runs and no FULL_SCAN task has been queued.
C15_SuppressionDecides ==
    /\ (~fs_event.is_directory /\ fs_event.is_card) =>
           (fs_event.requested <=> fs_event.at > fs_event.deadline)
    /\ hist.calls = 0 =>
           /\ scan_debounce_timer = NoTimer
           /\ scan_queue = <<>>
           /\ hist.enqueued = 0

\* a suppression window was declared and has run out, an event for a card file came
\* after it, and its scan request has been queued
C15_Witness ==
    /\ ~fs_event.is_directory
    /\ fs_event.is_card
    /\ fs_event.deadline > 0
    /\ fs_event.at > fs_event.deadline
    /\ fs_event.requested
    /\ hist.enqueued >= 1

\* no thread is inside request_scan and no timer waits
Quiet ==
    /\ \A t \in Callers : caller[t] = "idle"
    /\ scan_debounce_timer.state # "waiting"

\* C16: request_scan calls of which each is made less than the debounce interval after
\* the one before put exactly one FULL_SCAN task on the queue: never more than one, and
\* one once the calls have returned and the timer has run.
C16_OneTaskPerBurst ==
    (hist.burst /\ hist.calls >= 1) =>
        /\ hist.enqueued <= 1
        /\ Quiet => hist.enqueued = 1

\* C19: at most one execution of _perform_scan_logic is in progress at any time.
C19_OneScanAtATime ==
    Cardinality({w \in Workers : worker[w].pc = "scan"}) <= 1

\* C20: of the scan requests that reach the queue while one scan cycle is in
\* progress, at most one goes on to run a cycle of its own.
C20_RequestsCoalesce ==
    \A c \in DOMAIN hist.caused : hist.caused[c] <= 1

\* ---------------------------------------------------------------- reload scheduling
ReloadDelay == 1        \* schedule_reload(delay=0.8), counted in debounce intervals

\* Timer.cancel(): stops a timer that still waits, does nothing to one whose
\* interval is over
Cancel(timers, i) ==
    IF i = 0 THEN timers
    ELSE [timers EXCEPT ![i].pc = IF timers[i].pc = "waiting" THEN "cancelled"
                                  ELSE timers[i].pc]

\* the force_reload calls made so far
Forced == {t \in Forcers : forcer[t].pc # "idle"}

\* a thread enters schedule_reload
ScheduleReloadCall ==
    \E t \in Schedulers :
        /\ scheduler[t] = "idle"
        /\ rhist.calls < MaxSchedules
        /\ scheduler' = [scheduler EXCEPT ![t] = "schedule_reload"]
        /\ rhist' = [rhist EXCEPT
                        !.calls = rhist.calls + 1,
                        !.called_at = clock,
                        !.burst = rhist.burst /\
                                  (rhist.calls = 0 \/ clock - rhist.called_at < ReloadDelay)]
        /\ UNCHANGED <<indexVars, lockVars, moreVars, scanVars, reload_pending, reload_timer, reload_timers,
                       forcer, reloads>>

\* schedule_reload, the section under ctx.reload_lock
ScheduleReload ==
    \E t \in Schedulers :
        /\ scheduler[t] = "schedule_reload"
        /\ reload_pending' = TRUE
        /\ reload_timers' = Append(Cancel(reload_timers, reload_timer),
                                   [pc |-> "waiting", due |-> clock + ReloadDelay, run |-> 0])
        /\ reload_timer' = Len(reload_timers) + 1
        /\ scheduler' = [scheduler EXCEPT ![t] = "idle"]
        /\ rhist' = [rhist EXCEPT !.late = rhist.late \/ Forced # {}]
        /\ UNCHANGED <<indexVars, lockVars, moreVars, scanVars, forcer, reloads>>

\* the timer thread finds its interval over and itself not cancelled: it will call
\* _do_reload_now
ReloadTimerWake ==
    \E i \in DOMAIN reload_timers :
        /\ reload_timers[i].pc = "waiting"
        /\ clock >= reload_timers[i].due
        /\ reload_timers' = [reload_timers EXCEPT ![i].pc = "call"]
        /\ UNCHANGED <<indexVars, lockVars, moreVars, scanVars, reload_pending, reload_timer, scheduler,
                       forcer, reloads, rhist>>

\* force_reload, the section under ctx.reload_lock
ForceReload ==
    \E t \in Forcers :
        /\ forcer[t].pc = "idle"
        /\ reload_pending' = TRUE
        /\ reload_timers' = Cancel(reload_timers, reload_timer)
        /\ reload_timer' = 0
        /\ forcer' = [forcer EXCEPT ![t].pc = "call"]
        /\ UNCHANGED <<indexVars, lockVars, moreVars, scanVars, scheduler, reloads, rhist>>

\* a new execution of reload_from_db begins: when, by whom, after which force_reload calls
Begun(by) == [at |-> clock, by |-> by, after |-> Forced, done |-> FALSE]

\* _do_reload_now, the section under ctx.reload_lock, in a timer thread ...
DoReloadNowTimer ==
    \E i \in DOMAIN reload_timers :
        /\ reload_timers[i].pc = "call"
        /\ IF ~reload_pending
           THEN /\ reload_timers' = [reload_timers EXCEPT ![i].pc = "done"]
                /\ UNCHANGED <<reload_pending, reloads>>
           ELSE /\ reload_pending' = FALSE
                /\ reloads' = Append(reloads, Begun("timer"))
                /\ reload_timers' = [reload_timers EXCEPT ![i].pc = "reloading",
                                                          ![i].run = Len(reloads) + 1]
        /\ UNCHANGED <<indexVars, lockVars, moreVars, scanVars, reload_timer, scheduler, forcer, rhist>>

\* ... and in the thread that called force_reload
DoReloadNowForce ==
    \E t \in Forcers :
        /\ forcer[t].pc = "call"
        /\ IF ~reload_pending
           THEN /\ forcer' = [forcer EXCEPT ![t].pc = "returned"]
                /\ UNCHANGED <<reload_pending, reloads>>
           ELSE /\ reload_pending' = FALSE
                /\ reloads' = Append(reloads, Begun("force"))
                /\ forcer' = [forcer EXCEPT ![t] = [pc |-> "reloading",
                                                    run |-> Len(reloads) + 1]]
        /\ UNCHANGED <<indexVars, lockVars, moreVars, scanVars, reload_timer, reload_timers, scheduler, rhist>>

\* ctx.cache.reload_from_db() inside _do_reload_now, an exception logged
ReloadRuns(run) ==
    \E fail \in ReloadSteps :
        /\ SetCache(reload_from_db(Cache, db, sentinels, folders, fail))
        /\ last' = [Op("reload", <<>>, <<>>, fail = "none") EXCEPT
                        !.again = fail = "none" /\ AfterReload]
        /\ reloads' = [reloads EXCEPT ![run].done = TRUE]
        /\ UNCHANGED <<storeVars, ops, now, scanVars, lockVars, moreVars>>

ReloadEndTimer ==
    \E i \in DOMAIN reload_timers :
        /\ reload_timers[i].pc = "reloading"
        /\ ReloadRuns(reload_timers[i].run)
        /\ reload_timers' = [reload_timers EXCEPT ![i].pc = "done"]
        /\ UNCHANGED <<reload_pending, reload_timer, scheduler, forcer, rhist>>

ReloadEndForce ==
    \E t \in Forcers :
        /\ forcer[t].pc = "reloading"
        /\ ReloadRuns(forcer[t].run)
        /\ forcer' = [forcer EXCEPT ![t].pc = "returned"]
        /\ UNCHANGED <<reload_pending, reload_timer, reload_timers, scheduler, rhist>>

NextReload ==
    \/ Advance
    \/ ScheduleReloadCall
    \/ ScheduleReload
    \/ ReloadTimerWake
    \/ ForceReload
    \/ DoReloadNowTimer
    \/ DoReloadNowForce
    \/ ReloadEndTimer
    \/ ReloadEndForce

SpecReload == Init /\ [][NextReload]_vars

\* no thread is inside schedule_reload, no timer waits or runs its callback
ReloadQuiet ==
    /\ \A t \in Schedulers : scheduler[t] = "idle"
    /\ \A i \in DOMAIN reload_timers : reload_timers[i].pc \in {"cancelled", "done"}

\* C17: schedule_reload calls of which each is made within the debounce delay of the
\* one before make reload_from_db execute exactly once, never more, and that execution
\* starts no earlier than the delay after the last call.
C17_OneReloadPerBurst ==
    (rhist.burst /\ rhist.calls >= 1 /\ Forced = {}) =>
        /\ Len(reloads) <= 1
        /\ \A r \in DOMAIN reloads : reloads[r].at >= rhist.called_at + ReloadDelay
        /\ ReloadQuiet => (Len(reloads) = 1 /\ reloads[1].done)

\* the rebuilds begun after a force_reload call
AfterForce == {r \in DOMAIN reloads : reloads[r].after # {}}

\* C18: when force_reload has returned, an execution of reload_from_db begun after
\* the call has completed; and one force_reload, with no schedule_reload after it,
\* is followed by one rebuild, none from the timer it cancelled.
C18_ForceReloadIsSynchronous ==
    /\ \A t \in Forcers :
           forcer[t].pc = "returned" =>
               \E r \in DOMAIN reloads : t \in reloads[r].after /\ reloads[r].done
    /\ (Cardinality(Forced) = 1 /\ ~rhist.late) => Cardinality(AfterForce) <= 1

\* C21: an exception raised inside a scan cycle does not end the background worker:
\* a worker thread has left its loop only by taking a STOP task, and a worker that
\* failed goes back to waiting for the next task.
C21_WorkerSurvivesFailure ==
    \A w \in Workers :
        /\ worker[w].pc = "stopped" => worker[w].task.type = "STOP"
        /\ worker[w].pc = "except" => worker[w].failed

\* a worker whose earlier cycle raised is running the cycle of a later request
C21_Witness ==
    \E w \in Workers :
        /\ worker[w].failed
        /\ worker[w].pc = "scan"
        /\ worker[w].cycle >= 2

\* ---------------------------------------------------------------- the index lock
\* one more operation, counted in a specification that follows the threads
Budget == ops < MaxOps /\ ops' = ops + 1

\* the steps of reload_from_db that read the file system or the store
IOSteps == {"walk", "fetch", "sentinels"}

At(t, pc) == thr[t].pc = pc

Goto(t, pc, arg) == thr' = [thr EXCEPT ![t] = [pc |-> pc, arg |-> arg]]

\* reload_from_db: "with self.lock"
ReloadAcquire ==
    /\ At("reload_from_db", "idle")
    /\ lock = "none"
    /\ Budget
    /\ lock' = "reload_from_db"
    /\ reload_pending' = FALSE
    /\ Goto("reload_from_db", "walk", <<>>)
    /\ UNCHANGED <<storeVars, cacheVars, last, now, snap, gone, moreVars, scanVars, reload_timer,
                   reload_timers, scheduler, forcer, reloads, rhist>>

\* reload_from_db: os.walk(CARDS_FOLDER)
ReloadWalk ==
    /\ At("reload_from_db", "walk")
    /\ snap' = [snap EXCEPT !.physical_folders = folders]
    /\ Goto("reload_from_db", "fetch", <<>>)
    /\ UNCHANGED <<indexVars, lock, gone, moreVars, scanVars, reloadVars>>

\* reload_from_db: load_ui_data(), execute_with_retry(_do_fetch_all)
ReloadFetch ==
    /\ At("reload_from_db", "fetch")
    /\ snap' = [snap EXCEPT !.rows = db]
    /\ Goto("reload_from_db", "sentinels", <<>>)
    /\ UNCHANGED <<indexVars, lock, gone, moreVars, scanVars, reloadVars>>

\* reload_from_db: os.path.exists(.bundle) for every directory of the rows
ReloadSentinels ==
    /\ At("reload_from_db", "sentinels")
    /\ snap' = [snap EXCEPT !.sent = sentinels]
    /\ Goto("reload_from_db", "assign", <<>>)
    /\ UNCHANGED <<indexVars, lock, gone, moreVars, scanVars, reloadVars>>

\* reload_from_db: aggregation, assignment of the new index, release of the lock
ReloadAssign ==
    /\ At("reload_from_db", "assign")
    /\ SetCache(reload_from_db(Cache, snap.rows, snap.sent, snap.physical_folders, "none"))
    /\ last' = Op("reload", <<>>, <<>>, TRUE)
    /\ lock' = "none"
    /\ snap' = NoSnap
    /\ Goto("reload_from_db", "idle", <<>>)
    /\ UNCHANGED <<storeVars, ops, now, gone, moreVars, scanVars, reloadVars>>

\* api_upload_commit: the file is moved in place and its row committed
UploadStore ==
    \E category \in Dirs, f \in FileNames :
        LET rel_id == Append(category, f)
            mtime == now
            tags == FileTags(f)
            card_obj == [id |-> rel_id, category |-> category, is_bundle |-> FALSE,
                         bundle_dir |-> <<>>, versions |-> <<>>,
                         last_modified |-> mtime, tags |-> tags, is_favorite |-> FALSE]
        IN  /\ At("api_upload_commit", "idle")
            /\ Budget
            /\ Stamp
            /\ rel_id \notin DbIds
            /\ Len(db) < MaxFiles
            /\ db' = InsertOrReplace(db, [id |-> rel_id, category |-> Parent(rel_id),
                                          last_modified |-> mtime, tags |-> tags,
                                          is_favorite |-> FALSE])
            /\ folders' = folders \cup Prefixes(category)
            /\ Goto("api_upload_commit", "add_card_update", card_obj)
            /\ UNCHANGED <<sentinels, cacheVars, last, lock, snap, gone, moreVars, scanVars, reloadVars>>

\* api_upload_commit: ctx.cache.add_card_update(card_obj), once the lock is free
AddCardUpdate ==
    /\ At("api_upload_commit", "add_card_update")
    /\ lock = "none"
    /\ SetCache(add_card_update(Cache, thr["api_upload_commit"].arg))
    /\ last' = Op("add_card", <<>>, <<>>, TRUE)
    /\ Goto("api_upload_commit", "idle", <<>>)
    /\ UNCHANGED <<storeVars, ops, now, lock, snap, gone, moreVars, scanVars, reloadVars>>

\* api_delete_cards: the file goes to the trash, DELETE is executed in the open
\* transaction
DeleteBegin ==
    \E cid \in DOMAIN id_map \cap DbIds :
        /\ At("api_delete_cards", "idle")
        /\ Budget
        /\ gone' = gone \cup {cid}
        /\ Goto("api_delete_cards", "delete_card_update", cid)
        /\ UNCHANGED <<storeVars, cacheVars, last, now, lock, snap, moreVars, scanVars, reloadVars>>

\* api_delete_cards: ctx.cache.delete_card_update(cid), once the lock is free
DeleteCardUpdate ==
    /\ At("api_delete_cards", "delete_card_update")
    /\ lock = "none"
    /\ SetCache(delete_card_update(Cache, thr["api_delete_cards"].arg))
    /\ last' = Op("delete_card", <<>>, <<>>, TRUE)
    /\ Goto("api_delete_cards", "commit", thr["api_delete_cards"].arg)
    /\ UNCHANGED <<storeVars, ops, now, lock, snap, gone, moreVars, scanVars, reloadVars>>

\* api_delete_cards: conn.commit() after the loop
DeleteCommit ==
    /\ At("api_delete_cards", "commit")
    /\ db' = SelectSeq(db, LAMBDA r : r.id # thr["api_delete_cards"].arg)
    /\ gone' = gone \ {thr["api_delete_cards"].arg}
    /\ Goto("api_delete_cards", "idle", <<>>)
    /\ UNCHANGED <<sentinels, folders, cacheVars, last, ops, now, lock, snap, moreVars, scanVars,
                   reloadVars>>

\* api_list_cards: "with ctx.cache.lock: candidates = list(ctx.cache.cards)", then
\* the filters run over candidates
ListCopy ==
    /\ At("api_list_cards", "idle")
    /\ lock = "none"
    /\ Budget
    /\ Goto("api_list_cards", "iterating", "copy")
    /\ UNCHANGED <<storeVars, cacheVars, last, now, lock, snap, gone, moreVars, scanVars, reloadVars>>

\* the world-info list handler: "for card in ctx.cache.cards"
WorldInfoIterate ==
    /\ At("world_info", "idle")
    /\ Budget
    /\ Goto("world_info", "iterating", "live")
    /\ UNCHANGED <<storeVars, cacheVars, last, now, lock, snap, gone, moreVars, scanVars, reloadVars>>

\* a read path reaches the end of its loop
IterationEnds ==
    \E t \in {"api_list_cards", "world_info"} :
        /\ At(t, "iterating")
        /\ Goto(t, "idle", <<>>)
        /\ UNCHANGED <<indexVars, lock, snap, gone, moreVars, scanVars, reloadVars>>

\* a card file is removed from the cards folder outside the application
FileRemoved ==
    \E cid \in DbIds \ gone :
        /\ Budget
        /\ gone' = gone \cup {cid}
        /\ UNCHANGED <<storeVars, cacheVars, last, now, lock, thr, snap, moreVars, scanVars, reloadVars>>

\* _perform_scan_logic, as far as the index sees it: records whose file was not
\* found are deleted, and schedule_reload is called when something was deleted; a
\* cycle that finds nothing to change writes nothing. The cycle writes once the
\* transaction of api_delete_cards is closed.
ScanCycle ==
    /\ At("api_delete_cards", "idle")
    /\ gone # {}
    /\ db' = SelectSeq(db, LAMBDA r : r.id \notin gone)
    /\ gone' = {}
    /\ reload_pending' = TRUE
    /\ UNCHANGED <<sentinels, folders, cacheVars, last, ops, now, lock, thr, snap, moreVars, scanVars,
                   reload_timer, reload_timers, scheduler, forcer, reloads, rhist>>

NextLock ==
    \/ FileRemoved
    \/ ScanCycle
    \/ ReloadAcquire
    \/ ReloadWalk
    \/ ReloadFetch
    \/ ReloadSentinels
    \/ ReloadAssign
    \/ UploadStore
    \/ AddCardUpdate
    \/ DeleteBegin
    \/ DeleteCardUpdate
    \/ DeleteCommit
    \/ ListCopy
    \/ WorldInfoIterate
    \/ IterationEnds

SpecLock == Init /\ [][NextLock]_vars

\* C22: no thread reads the file system or the store while it holds the Cache Index
\* lock.
C22_NoIOUnderLock ==
    \A t \in Threads : lock = t => thr[t].pc \notin IOSteps

\* C23: while add_card_update or delete_card_update changes the list cards in place,
\* no read path is in the middle of a loop over that list itself: every loop runs
\* over a copy.
C23_ReadersIterateCopies ==
    [][(last'.op \in {"add_card", "delete_card"} /\ cards' # cards) =>
           \A t \in {"api_list_cards", "world_info"} :
               At(t, "iterating") => thr[t].arg = "copy"]_vars

\* nothing is in flight: every thread is out of its handler, no debounced reload is
\* pending and a scan cycle would find every record's file in place
Settled ==
    /\ \A t \in Threads : At(t, "idle")
    /\ lock = "none"
    /\ ~reload_pending
    /\ gone = {}

ListedIds == [i \in DOMAIN cards |-> Card(i).id]

\* C24: once every handler has returned, the pending reload has run and a scan cycle
\* has nothing left to change, cards lists exactly the ids reload_from_db would list
\* from the store: none without a record, none missing, none twice.
C24_StalenessIsTransient ==
    Settled =>
        LET final_cards == FinalCards(db, sentinels)
        IN  /\ SeqToSet(ListedIds) = {final_cards[i].id : i \in DOMAIN final_cards}
            /\ \A i, j \in DOMAIN cards : ListedIds[i] = ListedIds[j] => i = j

\* ---------------------------------------------------------------- the scan cycle
\* times are counted in hundredths of a second
Epsilon == 1            \* the tolerance 0.01 s on mtime
BackfillSize == 100     \* a file larger than this gets its token count filled in

Mtimes == {0, 1, 2}
Sizes == {100, 101}
\* what extract_card_info makes of a file: "card" a card dict, "unparsable" None,
\* "malformed" a value that is not shaped like a card (a JSON list, "data": null)
Kinds == {"card", "unparsable", "malformed"}
Tokens == {0, 5}

Files == {f \in [mtime : Mtimes, size : Sizes, kind : Kinds, tokens : Tokens] :
             f.kind # "card" => f.tokens = 0}

is_card_file(filename) == filename \in CardNames

\* one more change made to the folder or the table from outside the cycle
Edit == ops < MaxEdits /\ ops' = ops + 1

\* a file is created or rewritten in the cards folder
FileWritten ==
    \E n \in Names, f \in Files :
        /\ Edit
        /\ n \in OtherNames => f = [mtime |-> 0, size |-> 100, kind |-> "unparsable",
                                     tokens |-> 0]
        /\ n = "y.json" => f.mtime = 0 /\ f.size = 101
        /\ disk' = [disk EXCEPT ![n] = f]
        /\ UNCHANGED <<storeVars, cacheVars, last, now, lockVars, orderVars, card_metadata, scan, retry,
                       scanVars, reloadVars>>

\* a file leaves the cards folder
FileDeleted ==
    \E n \in Names :
        /\ disk[n] # NoFile
        /\ Edit
        /\ disk' = [disk EXCEPT ![n] = NoFile]
        /\ UNCHANGED <<storeVars, cacheVars, last, now, lockVars, orderVars, card_metadata, scan, retry,
                       scanVars, reloadVars>>

\* update_card_cache called by an API handler on a card file: the row gets the file's
\* attributes and its hash; is_favorite is what the user has set. The write waits
\* for the transaction of a running cycle.
UpdateCardCache ==
    \E id \in CardNames, fav \in {0, 1} :
        /\ disk[id].kind = "card"
        /\ scan.pc # "walk"
        /\ Edit
        /\ card_metadata' = Put(card_metadata, id,
                                [mtime |-> disk[id].mtime, size |-> disk[id].size,
                                 tokens |-> disk[id].tokens, hash |-> "h", fav |-> fav])
        /\ UNCHANGED <<storeVars, cacheVars, last, now, lockVars, orderVars, disk, scan, retry,
                       scanVars, reloadVars>>

\* api_toggle_favorite on a record of the store: SELECT, UPDATE, commit, then the
\* index entry. A running cycle has read its snapshot without keeping a transaction
\* open; from its first write on it holds the write lock of the store and the
\* UPDATE waits.
ToggleFavorite ==
    \E card_id \in DOMAIN card_metadata :
        LET new_status == IF card_metadata[card_id].fav # 0 THEN 0 ELSE 1
            toggled(rows) == [rows EXCEPT ![card_id].fav = new_status]
        IN  /\ scan.pc = "walk" => scan.written = {}
            /\ Edit
            /\ card_metadata' = toggled(card_metadata)
            /\ scan' = IF scan.pc = "walk" THEN [scan EXCEPT !.tx = toggled(@)] ELSE scan
            /\ SetCache(toggle_favorite_update(Cache, card_id, new_status = 1))
            /\ UNCHANGED <<storeVars, last, now, lockVars, orderVars, disk, retry,
                           scanVars, reloadVars>>

\* the two flags of the loop body
file_changed(db_files_map, file_id, st) ==
    IF file_id \notin DOMAIN db_files_map THEN TRUE
    ELSE \/ st.mtime > db_files_map[file_id].mtime + Epsilon
         \/ st.size # db_files_map[file_id].size

need_update_ignoring_tokens(db_files_map, file_id, st) ==
    file_changed(db_files_map, file_id, st)

need_update(db_files_map, file_id, st) ==
    \/ file_changed(db_files_map, file_id, st)
    \/ /\ db_files_map[file_id].tokens = 0
       /\ st.size > BackfillSize

\* INSERT OR REPLACE INTO card_metadata
upsert(S, file_id, st) ==
    LET db_info == Get(S.db_files_map, file_id, [mtime |-> 0, size |-> 0, tokens |-> 0,
                                                 hash |-> "", fav |-> 0])
        keep_fav == IF file_id \in DOMAIN S.db_files_map THEN db_info.fav ELSE 0
        file_hash == IF file_changed(S.db_files_map, file_id, st) THEN "" ELSE db_info.hash
    IN  [S EXCEPT !.tx = Put(S.tx, file_id, [mtime |-> st.mtime, size |-> st.size,
                                             tokens |-> st.tokens, hash |-> file_hash,
                                             fav |-> keep_fav]),
                  !.written = @ \cup {file_id},
                  !.changes_detected = TRUE]

\* the body of the loop over the files of the walk, for one card file
scan_file(S, file_id, D) ==
    LET found == [S EXCEPT !.todo = @ \ {file_id}, !.fs_found_files = @ \cup {file_id}]
        st == D[file_id]
    IN  IF st = NoFile THEN found                                  \* os.stat raises OSError
        ELSE IF ~need_update(S.db_files_map, file_id, st) THEN found
        ELSE LET parsed == [found EXCEPT !.extracted = @ \cup {file_id}]
             IN  CASE st.kind = "card" -> upsert(parsed, file_id, st)
                   [] st.kind = "unparsable" -> [parsed EXCEPT !.failed = @ \cup {file_id}]
                   [] st.kind = "malformed" ->
                          \* data_block.get raises: the connection rolls back
                          [parsed EXCEPT !.failed = @ \cup {file_id}, !.pc = "aborted",
                                         !.tx = S.db_files_map]

\* step 3: records of the snapshot whose file was not met are deleted
prune_everything_unwritten(S) ==
    LET vanished == DOMAIN S.db_files_map \ S.written
    IN  [S EXCEPT !.tx = [id \in DOMAIN S.tx \ vanished |-> S.tx[id]],
                  !.written = @ \cup vanished,
                  !.changes_detected = @ \/ vanished # {}]

prune(S) ==
    LET vanished == DOMAIN S.db_files_map \ S.fs_found_files
    IN  [S EXCEPT !.tx = [id \in DOMAIN S.tx \ vanished |-> S.tx[id]],
                  !.written = @ \cup vanished,
                  !.changes_detected = @ \/ vanished # {}]

\* the end of the cycle: commit, then schedule_reload when something was written
finish_always_scheduling(S) ==
    [S EXCEPT !.pc = "done", !.scheduled = TRUE]

finish(S) ==
    [S EXCEPT !.pc = "done", !.scheduled = S.changes_detected]

\* _perform_scan_logic: connection, snapshot of card_metadata, start of os.walk
ScanBegin ==
    /\ scan.pc # "walk"
    /\ scan' = [NoScan EXCEPT !.pc = "walk", !.db_files_map = card_metadata,
                              !.tx = card_metadata,
                              !.todo = {n \in Names : disk[n] # NoFile /\ is_card_file(n)},
                              !.began_at = ops,
                              !.repeat = (scan.pc = "done" /\ scan.ended_at = ops)]
    /\ UNCHANGED <<indexVars, lockVars, orderVars, disk, card_metadata, retry, scanVars, reloadVars>>

\* one turn of the loop over the files
ScanFile ==
    \E file_id \in scan.todo :
        /\ scan.pc = "walk"
        /\ scan' = scan_file(scan, file_id, disk)
        /\ UNCHANGED <<indexVars, lockVars, orderVars, disk, card_metadata, retry, scanVars, reloadVars>>

\* after the walk: prune, commit, schedule_reload
ScanEnd ==
    /\ scan.pc = "walk"
    /\ scan.todo = {}
    /\ scan' = [finish(prune(scan)) EXCEPT
                    !.began_at = -1,
                    !.ended_at = IF scan.began_at = ops THEN ops ELSE -1]
    /\ card_metadata' = scan'.tx
    /\ UNCHANGED <<indexVars, lockVars, orderVars, disk, retry, scanVars, reloadVars>>

NextCycle ==
    \/ FileWritten
    \/ FileDeleted
    \/ UpdateCardCache
    \/ ToggleFavorite
    \/ ScanBegin
    \/ ScanFile
    \/ ScanEnd

SpecCycle == Init /\ [][NextCycle]_vars

\* the class of a file against the snapshot
Class(db_files_map, id, f) ==
    IF id \notin DOMAIN db_files_map THEN "new"
    ELSE IF f.mtime - db_files_map[id].mtime > Epsilon \/ f.size # db_files_map[id].size
         THEN "changed"
    ELSE IF db_files_map[id].tokens = 0 /\ f.size > BackfillSize THEN "backfill"
    ELSE "unchanged"

\* the loop body runs for the card file id, which os.stat finds
Visits(id) ==
    /\ scan.pc = "walk"
    /\ id \in scan.todo
    /\ id \notin scan'.todo
    /\ disk[id] # NoFile

\* the cycle goes from its walk to its end
Completes == scan.pc = "walk" /\ scan'.pc = "done"

\* C25: a card file met by the walk is new when the snapshot has no row for its id,
\* changed when its mtime is more than 0.01 s past the stored one or its size
\* differs, a token backfill when it is otherwise unchanged, stored tokens are 0 and
\* it is larger than 100 bytes, and unchanged otherwise. New and changed files are
\* extracted and, once extracted, upserted with an empty hash; backfill files are
\* extracted and upserted with the stored hash; unchanged files are neither extracted
\* nor written.
C25_ScanClassifies ==
    [][\A id \in CardNames :
           Visits(id) =>
               LET f == disk[id]
                   c == Class(scan.db_files_map, id, f)
                   Upserted(h) ==
                       /\ id \in DOMAIN scan'.tx
                       /\ scan'.tx[id].mtime = f.mtime
                       /\ scan'.tx[id].size = f.size
                       /\ scan'.tx[id].tokens = f.tokens
                       /\ scan'.tx[id].hash = h
               IN  /\ c \in {"new", "changed"} =>
                       /\ id \in scan'.extracted
                       /\ f.kind = "card" => Upserted("")
                   /\ c = "backfill" =>
                       /\ id \in scan'.extracted
                       /\ f.kind = "card" => Upserted(scan.db_files_map[id].hash)
                   /\ c = "unchanged" =>
                       /\ id \notin scan'.extracted
                       /\ scan'.tx = scan.tx
                       /\ scan'.written = scan.written]_vars

\* a finished cycle that upserted one file as a backfill, keeping its hash, and
\* another as new
C25_Witness ==
    /\ scan.pc = "done"
    /\ \E id, other \in scan.written \cap scan.extracted :
           /\ id \in DOMAIN scan.db_files_map
           /\ scan.tx[id].hash = "h"
           /\ other \notin DOMAIN scan.db_files_map
           /\ other \in DOMAIN scan.tx
           /\ scan.tx[other].hash = ""

\* C26: when a cycle completes, every id of the snapshot whose card file the walk
\* did not meet has no row any more, and every id of the snapshot whose file it met
\* still has one.
C26_PruneExactlyVanished ==
    [][Completes =>
           \A id \in DOMAIN scan.db_files_map :
               id \in DOMAIN card_metadata' <=> id \in scan.fs_found_files]_vars

\* a finished cycle that deleted the row of a vanished file and kept the row of a
\* file it met and did not write
C26_Witness ==
    /\ scan.pc = "done"
    /\ \E id, other \in DOMAIN scan.db_files_map :
           /\ id \notin scan.fs_found_files
           /\ id \notin DOMAIN card_metadata
           /\ other \in scan.fs_found_files \ scan.extracted
           /\ other \in DOMAIN card_metadata

\* C27: the cycle that ends calls schedule_reload exactly when it has inserted,
\* updated or deleted a row of the store.
C27_ReloadIffWritten ==
    [][(scan.pc = "walk" /\ scan'.pc # "walk") =>
           (scan'.scheduled <=> (scan'.pc = "done" /\ scan'.written # {}))]_vars

\* a finished cycle that met a file with a row, found nothing to change and
\* scheduled no reload
C27_Witness ==
    /\ scan.pc = "done"
    /\ ~scan.scheduled
    /\ scan.fs_found_files \cap DOMAIN scan.db_files_map # {}
    /\ scan.extracted = {}

\* C28: when the extraction of a file fails, the cycle goes on with the walk, and
\* neither the file nor the rows written so far are touched.
C28_FailureSkipsOneFile ==
    [][\A id \in CardNames :
           (Visits(id) /\ id \in scan'.failed) =>
               /\ scan'.pc = "walk"
               /\ scan'.tx = scan.tx
               /\ disk' = disk]_vars

\* C29: when a cycle completes, the store holds no row for a file whose extraction
\* failed in that cycle.
C29_UnparsableHasNoRecord ==
    [][Completes => \A id \in scan'.failed : id \notin DOMAIN card_metadata']_vars

\* ---------------------------------------------------------------- execute_with_retry
\* what one call of func does: it returns, or raises sqlite3.OperationalError with
\* "locked" in its text, another OperationalError, or another exception
Outcomes == {"ok", "locked", "operational", "other"}

\* execute_with_retry(func, max_retries) is called; outcomes[k] is what the k-th call
\* of func would do
RetryCall ==
    \E outcomes \in [1..MaxRetries -> Outcomes], max_retries \in 0..MaxRetries :
        /\ retry.pc # "loop"
        /\ retry' = [NoRetry EXCEPT !.pc = "loop", !.outcomes = outcomes,
                                    !.max_retries = max_retries]
        /\ UNCHANGED <<indexVars, lockVars, orderVars, disk, card_metadata, scan, scanVars, reloadVars>>

\* one turn of "for i in range(max_retries)", retrying after every OperationalError
attempt_retrying_any_error(r) ==
    IF r.i >= r.max_retries THEN [r EXCEPT !.pc = "done", !.result = "returned_none"]
    ELSE LET outcome == r.outcomes[r.i + 1]
             called == [r EXCEPT !.calls = @ + 1]
         IN  CASE outcome = "ok" -> [called EXCEPT !.pc = "done", !.result = "returned"]
               [] outcome \in {"locked", "operational"} ->
                      IF r.i < r.max_retries - 1
                      THEN [called EXCEPT !.sleeps = @ + r.i + 1, !.i = @ + 1]
                      ELSE [called EXCEPT !.pc = "done", !.result = "raised_" \o outcome]
               [] OTHER -> [called EXCEPT !.pc = "done", !.result = "raised_other"]

\* one turn of "for i in range(max_retries)"; sleeps counts the time slept, in
\* units of delay
attempt(r) ==
    IF r.i >= r.max_retries THEN [r EXCEPT !.pc = "done", !.result = "returned_none"]
    ELSE LET outcome == r.outcomes[r.i + 1]
             called == [r EXCEPT !.calls = @ + 1]
         IN  CASE outcome = "ok" -> [called EXCEPT !.pc = "done", !.result = "returned"]
               [] outcome = "locked" ->
                      IF r.i < r.max_retries - 1
                      THEN [called EXCEPT !.sleeps = @ + r.i + 1, !.i = @ + 1]
                      ELSE [called EXCEPT !.pc = "done", !.result = "raised_locked"]
               [] outcome = "operational" ->
                      [called EXCEPT !.pc = "done", !.result = "raised_operational"]
               [] OTHER -> [called EXCEPT !.pc = "done", !.result = "raised_other"]

RetryAttempt ==
    /\ retry.pc = "loop"
    /\ retry' = attempt(retry)
    /\ UNCHANGED <<indexVars, lockVars, orderVars, disk, card_metadata, scan, scanVars, reloadVars>>

NextRetry ==
    \/ RetryCall
    \/ RetryAttempt

SpecRetry == Init /\ [][NextRetry]_vars

\* C30: execute_with_retry calls func at most max_retries times; every call but the
\* last one made ended in a locked error; it returns when a call succeeds, raises at
\* once the error of a call that failed otherwise, and raises the locked error only
\* when max_retries calls have been made; the time it sleeps is bounded.
C30_BoundedRetry ==
    /\ retry.calls <= retry.max_retries
    /\ \A k \in 1..(retry.calls - 1) : retry.outcomes[k] = "locked"
    /\ retry.sleeps <= (retry.max_retries * (retry.max_retries - 1)) \div 2
    /\ retry.pc = "loop" => \A k \in 1..retry.calls : retry.outcomes[k] = "locked"
    /\ retry.pc = "done" =>
           /\ retry.result = "returned" => retry.outcomes[retry.calls] = "ok"
           /\ retry.result = "raised_operational" =>
                  retry.outcomes[retry.calls] = "operational"
           /\ retry.result = "raised_other" => retry.outcomes[retry.calls] = "other"
           /\ retry.result = "raised_locked" =>
                  /\ retry.calls = retry.max_retries
                  /\ retry.outcomes[retry.calls] = "locked"
           /\ retry.result = "returned_none" => retry.max_retries = 0
           /\ retry.calls < retry.max_retries =>
                  retry.outcomes[retry.calls] # "locked"

\* a call that met the locked error on every attempt and raised it after the last
C30_Witness ==
    /\ retry.pc = "done"
    /\ retry.result = "raised_locked"
    /\ retry.calls = MaxRetries
    /\ retry.sleeps > 0

\* ---------------------------------------------------------------- the incremental operations, one by one
\* the keys of category_counts that count a card of this category
CountedUnder(category) == IF category = <<>> THEN {<<>>} ELSE Prefixes(category)

Indicator(b) == IF b THEN 1 ELSE 0

PatchCategories == {<<>>, <<"A">>, <<"A", "B">>}

\* C31: update_card_data on an existing id merges the patch into the object id_map
\* holds for that id, which stays the listed one; when the patch changes the
\* category, each count of the old category and its ancestors is one lower, each
\* count of the new category and its ancestors one higher, and every other count as
\* before; when it does not, category_counts is as before.
C31_UpdateFieldsCounts ==
    \A card_id \in DOMAIN id_map, new_category \in PatchCategories :
        LET o == id_map[card_id]
            old_category == heap[o].category
            R == update_card_data(Cache, card_id, [category |-> new_category])
        IN  /\ R.id_map = id_map /\ R.cards = cards
            /\ R.heap[o].category = new_category
            /\ \A p \in DOMAIN category_counts \cup DOMAIN R.category_counts :
                   Get(R.category_counts, p, 0) =
                       Get(category_counts, p, 0)
                           - Indicator(old_category # new_category
                                       /\ p \in CountedUnder(old_category))
                           + Indicator(old_category # new_category
                                       /\ p \in CountedUnder(new_category))

\* the Bundles listed in cards, as indices of cards
ListedBundles == {i \in DOMAIN cards : Card(i).is_bundle}

MoveTargets == {<<>>, <<"B">>}

\* C32: move_bundle_update(old_dir, new_dir, old_cat, new_cat) on a listed Bundle
\* re-keys each key of id_map under old_dir to the same suffix under new_dir and
\* leaves the other keys alone, sets bundle_dir to new_dir, and changes
\* category_counts by one decrement along old_cat and one increment along new_cat.
C32_MoveBundleRekeys ==
    \A i \in ListedBundles, new_cat \in MoveTargets :
        LET old_dir == Card(i).bundle_dir
            old_cat == Card(i).category
            new_dir == Append(new_cat, Basename(old_dir))
            R == move_bundle_update(Cache, old_dir, new_dir, old_cat, new_cat)
        IN  (old_dir # <<>> /\ new_dir # old_dir /\ ~IsUnder(new_dir, old_dir) /\ NoIdUnder(new_dir)) =>
                /\ DOMAIN R.id_map = {Rekeyed(k, old_dir, new_dir) : k \in DOMAIN id_map}
                /\ \A k \in DOMAIN id_map : R.id_map[Rekeyed(k, old_dir, new_dir)] = id_map[k]
                /\ R.heap[cards[i]].bundle_dir = new_dir
                /\ \A p \in DOMAIN category_counts \cup DOMAIN R.category_counts :
                       Get(R.category_counts, p, 0) =
                           Get(category_counts, p, 0)
                               - Indicator(old_cat # new_cat /\ p \in CountedUnder(old_cat))
                               + Indicator(old_cat # new_cat /\ p \in CountedUnder(new_cat))

\* C33: delete_bundle_update(dir) on a listed Bundle removes the Bundle from cards
\* and every id under dir from id_map, keeps every listed entry outside dir, and
\* lowers by one the counts of the Bundle's category and of its ancestors, and no other count.
C33_DeleteBundleOnce ==
    \A i \in ListedBundles :
        LET bundle_dir == Card(i).bundle_dir
            mains == DeleteBundleMains(Cache, bundle_dir)
        IN  \A main \in (IF mains = {} THEN {0} ELSE mains) :
                LET R == delete_bundle_update(Cache, bundle_dir, main)
                IN  /\ cards[i] \notin SeqToSet(R.cards)
                    /\ \A k \in DOMAIN R.id_map : ~IsUnder(k, bundle_dir)
                    /\ \A j \in DOMAIN cards :
                           (j # i /\ ~IsUnder(Card(j).id, bundle_dir)) =>
                               cards[j] \in SeqToSet(R.cards)
                    /\ \A p \in DOMAIN category_counts \cup DOMAIN R.category_counts :
                           Get(R.category_counts, p, 0) =
                               Get(category_counts, p, 0)
                                   - Indicator(p \in CountedUnder(Card(i).category))

\* cards a handler may add: one of the root category, two of nested categories
NewCards ==
    {[id |-> rel_id, category |-> Parent(rel_id), is_bundle |-> FALSE, bundle_dir |-> <<>>,
      versions |-> <<>>, last_modified |-> now, tags |-> <<"a">>, is_favorite |-> FALSE] :
         rel_id \in {<<"x">>, <<"A", "y">>, <<"A", "B", "y">>}}

C35_BundleMapConsistent ==
    /\ \A dir \in DOMAIN bundle_map :
           /\ bundle_map[dir] \in DOMAIN id_map
           /\ heap[id_map[bundle_map[dir]]].is_bundle
           /\ heap[id_map[bundle_map[dir]]].bundle_dir = dir
           /\ id_map[bundle_map[dir]] \in SeqToSet(cards)
    /\ \A i \in ListedBundles :
           /\ Card(i).bundle_dir \in DOMAIN bundle_map
           /\ bundle_map[Card(i).bundle_dir] = Card(i).id

\* ---------------------------------------------------------------- the two locks
\* calls an API thread makes: the two of cache_service and two operations of the index
ApiCalls == {"schedule_reload", "force_reload", "add_card_update", "rename_folder_update"}

Moves(t, op, pc) == proc' = [proc EXCEPT ![t] = [op |-> op, pc |-> pc]]

Rest == <<indexVars, thr, snap, gone, disk, card_metadata, scan, retry, scanVars, reloadVars>>

\* a thread enters one of the calls; the timer thread enters _do_reload_now
Enter ==
    \E t \in LockUsers :
        /\ proc[t].pc = "idle"
        /\ \E op \in (IF t = "timer" THEN {"_do_reload_now"} ELSE ApiCalls) :
               Moves(t, op, IF op \in {"add_card_update", "rename_folder_update"}
                            THEN "want_cache_lock" ELSE "want_reload_lock")
        /\ UNCHANGED <<Rest, lock, reload_lock>>

\* "with ctx.reload_lock:" is entered
AcquireReloadLock ==
    \E t \in LockUsers :
        /\ proc[t].pc = "want_reload_lock"
        /\ reload_lock = "none"
        /\ reload_lock' = t
        /\ Moves(t, proc[t].op, "in_reload_lock")
        /\ UNCHANGED <<Rest, lock>>

\* _do_reload_now that calls reload_from_db inside "with ctx.reload_lock:"
leave_reload_lock_late(t, op) == IF op = "schedule_reload" THEN "none" ELSE t

\* the holder of reload_lock after the with block of the call: every block ends
\* before anything else is called
leave_reload_lock(t, op) == "none"

\* the end of the block under reload_lock: schedule_reload returns, force_reload goes
\* on to _do_reload_now, _do_reload_now goes on to ctx.cache.reload_from_db()
ReleaseReloadLock ==
    \E t \in LockUsers :
        /\ proc[t].pc = "in_reload_lock"
        /\ reload_lock' = IF proc[t].op = "force_reload" THEN "none"
                          ELSE leave_reload_lock(t, proc[t].op)
        /\ CASE proc[t].op = "schedule_reload" -> Moves(t, "none", "idle")
             [] proc[t].op = "force_reload" -> Moves(t, "_do_reload_now", "want_reload_lock")
             [] OTHER -> Moves(t, "reload_from_db", "want_cache_lock")
        /\ UNCHANGED <<Rest, lock>>

\* "with self.lock:" of reload_from_db, add_card_update or move_folder_update is
\* entered
AcquireCacheLock ==
    \E t \in LockUsers :
        /\ proc[t].pc = "want_cache_lock"
        /\ lock = "none"
        /\ lock' = t
        /\ Moves(t, proc[t].op, "in_cache_lock")
        /\ UNCHANGED <<Rest, reload_lock>>

\* the block under the index lock ends and the call returns
ReleaseCacheLock ==
    \E t \in LockUsers :
        /\ proc[t].pc = "in_cache_lock"
        /\ lock' = "none"
        /\ reload_lock' = IF reload_lock = t THEN "none" ELSE reload_lock
        /\ Moves(t, "none", "idle")
        /\ UNCHANGED Rest

NextOrder ==
    \/ Enter
    \/ AcquireReloadLock
    \/ ReleaseReloadLock
    \/ AcquireCacheLock
    \/ ReleaseCacheLock

SpecOrder == Init /\ [][NextOrder]_vars

Waiting(t) == proc[t].pc \in {"want_reload_lock", "want_cache_lock"}

\* C36: no thread holds reload_lock and the index lock together, no thread waits
\* for a lock it holds, and a thread that holds a lock is never itself waiting for
\* one, so some thread can always go on.
C36_NoLockNesting ==
    \A t \in LockUsers :
        /\ ~(reload_lock = t /\ lock = t)
        /\ proc[t].pc = "want_cache_lock" => lock # t
        /\ proc[t].pc = "want_reload_lock" => reload_lock # t
        /\ (reload_lock = t \/ lock = t) => ~Waiting(t)

\* a timer thread rebuilds under the index lock while one API thread holds
\* reload_lock and the other waits for the index lock
C36_Witness ==
    /\ lock = "timer" /\ proc["timer"].op = "reload_from_db"
    /\ reload_lock \in {"api_1", "api_2"}
    /\ \E t \in {"api_1", "api_2"} : proc[t].pc = "want_cache_lock"

\* ---------------------------------------------------------------- distinct ids
\* C37: no two entries of cards ever have the same id, also when add_card_update is
\* called for an id that is already listed and when a handler that wrote the store
\* record calls add_card_update after a concurrent reload_from_db fetched the record.
C37_NoDuplicateIds ==
    \A i, j \in DOMAIN cards : Card(i).id = Card(j).id => i = j

\* ---------------------------------------------------------------- id_map and cards
\* C38: in every reachable state each key k of id_map maps to an object whose id
\* field is k, and every entry of cards is the value of id_map at its own id.
C38_IdMapMatchesCards ==
    /\ \A k \in DOMAIN id_map : heap[id_map[k]].id = k
    /\ \A i \in DOMAIN cards :
           Card(i).id \in DOMAIN id_map /\ id_map[Card(i).id] = cards[i]

\* ---------------------------------------------------------------- favorites
\* C39: a scan cycle never changes the favorite flag of a record that already exists
\* in the store, also when an API favorite toggle commits between the snapshot and
\* the upsert of that record; a record inserted for a new file is non-favorite.
C39_ScanKeepsFavorite ==
    [][Completes =>
           \A id \in DOMAIN card_metadata' :
               card_metadata'[id].fav =
                   IF id \in DOMAIN card_metadata THEN card_metadata[id].fav ELSE 0]_vars

\* ---------------------------------------------------------------- idempotence
\* began_at is the number of changes made to the folder and the store when the
\* running cycle read its snapshot; ended_at is that number at the end of a completed
\* cycle during which none was made (-1 otherwise); repeat says that the running
\* cycle began with no change made since such a cycle ended

\* C40: a scan cycle that runs after a completed scan cycle, with no change of the
\* folder or the store since that cycle read its snapshot, writes nothing to the
\* store and schedules no rebuild.
C40_ScanIdempotent ==
    [][(Completes /\ scan.repeat /\ scan.began_at = ops) =>
           (scan'.written = {} /\ ~scan'.scheduled /\ card_metadata' = card_metadata)]_vars

====
